---- MODULE Spec2Model ----
(***************************************************************************)
(* State-machine model of the droneOne arbitration-and-execution engine:   *)
(*   - CommandArbitrator   (src/src/core/command_arbitrator.py)            *)
(*   - CommandExecutor     (src/src/core/command_executor.py), with its    *)
(*     two asyncio background tasks (setpoint stream, follow loop)         *)
(*   - the control loop    (src/scripts/main_controller.py)                *)
(* asyncio is cooperative: a coroutine runs from one await that suspends   *)
(* to the next without interruption, so every action below is one such     *)
(* run, and the scheduler's choice of the next ready task is the           *)
(* nondeterminism of Next.                                                 *)
(***************************************************************************)
EXTENDS Integers, Sequences, FiniteSets, TLC

VARIABLES
    \* --- CommandArbitrator fields
    human_command,              \* self._human_command (None or a command)
    human_control_active,       \* self._human_control_active
    \* --- history of the arbitrator's calls (observation only)
    arb_last,                   \* the last call: its name, argument and result,
                                \* and the arbitrator's state when it was made
    since,                      \* per marker event, the calls made after it
    \* --- CommandExecutor fields
    offboard_setpoint_task,     \* self._offboard_setpoint_task (0 is None)
    offboard_active,            \* self._offboard_active
    current_offboard_setpoint,  \* self._current_offboard_setpoint
    target_info,                \* self._target_info (NoTarget is None)
    follow_distance_m,          \* self._follow_distance_m
    follow_altitude_m,          \* self._follow_altitude_m
    follow_task,                \* self._follow_task (0 is None)
    \* --- the event loop's tasks and the execute_command coroutine
    stream_tasks,               \* send_setpoints_loop tasks: id -> status
    follow_tasks,               \* _follow_target_loop tasks: id -> frame
    exec,                       \* execute_command: where it is suspended, its
                                \* command, locals and last result
    \* --- MAVSDKInterface / the vehicle
    is_connected,               \* mavsdk_interface.is_connected
    vehicle,                    \* what the vehicle was last told
    \* --- main_controller.py
    human_command_queue,        \* _human_command_queue
    human_input_task,           \* get_human_input_task: reading, ended, cancelled
    ctl,                        \* main(): where it is suspended, and its locals
    detected,                   \* camera_processor has a detected object
    camera_insights,            \* camera_processor._visual_insights["detected_objects"]
    snapshot,                   \* the dict a caller of get_current_state holds
    latest_battery,             \* telemetry_processor._latest_battery, percent
    drone_state                 \* the DroneState fields

arbVars == <<human_command, human_control_active, arb_last, since>>

execVars == <<offboard_setpoint_task, offboard_active, current_offboard_setpoint,
              target_info, follow_distance_m, follow_altitude_m, follow_task,
              stream_tasks, follow_tasks, exec, is_connected, vehicle>>

mainVars == <<human_command_queue, human_input_task, ctl, detected,
              camera_insights, snapshot, latest_battery, drone_state>>

vars == <<human_command, human_control_active, arb_last, since,
          offboard_setpoint_task, offboard_active, current_offboard_setpoint,
          target_info, follow_distance_m, follow_altitude_m, follow_task,
          stream_tasks, follow_tasks, exec, is_connected, vehicle,
          human_command_queue, human_input_task, ctl, detected,
          camera_insights, snapshot, latest_battery, drone_state>>

\* Python's None in a slot that holds a command
None == [action |-> "None"]

(***************************************************************************)
(* Commands: Python dicts {"action", "parameters", "reason"}.  A dict is a *)
(* function on the keys it holds; dict.get(k) is None for a missing key.   *)
(***************************************************************************)
Has(d, k) == k \in DOMAIN d

Cmd(a, p, r) == [action |-> a, parameters |-> p, reason |-> r]

NoParams == <<>>

\* command_arbitrator.py:63, the idle-hold command built by arbitrate_command
DoNothingHold == [action |-> "do_nothing", reason |-> "Human control active"]

\* Commands a human can record with set_human_command
HumanCommands ==
    { Cmd("land", NoParams, "human"),
      Cmd("takeoff", [altitude_m |-> 10], "human"),
      Cmd("do_nothing", NoParams, "human") }

\* Commands the decision source proposes to arbitrate_command
ProposedCommands ==
    { Cmd("follow_target", NoParams, "llm"),
      Cmd("land", NoParams, "llm"),
      Cmd("do_nothing", NoParams, "llm") }

AllCommands == HumanCommands \cup ProposedCommands \cup {DoNothingHold}

\* Python truthiness of self._human_command: None is false, a command (a
\* dict with an "action") is true
Truthy(c) == c # None

(***************************************************************************)
(* History bookkeeping: for each marker event, the kinds of arbitrator     *)
(* calls made after its latest occurrence (NoEvent before it occurred).    *)
(***************************************************************************)
NoEvent == {"NoEvent"}
Markers == {"consume", "takeback", "record"}

Note(s, kind, marks) ==
    [m \in Markers |->
        IF m \in marks THEN {}
        ELSE IF s[m] = NoEvent THEN NoEvent
        ELSE s[m] \cup {kind}]

Called(op, arg, ret, active, pending, s) ==
    [op |-> op, arg |-> arg, ret |-> ret,
     was_active |-> active, was_pending |-> pending, was_since |-> s]

(***************************************************************************)
(* CommandArbitrator                                                       *)
(***************************************************************************)
ArbInit ==
    /\ human_command = None
    /\ human_control_active = TRUE
    /\ arb_last = Called("init", None, None, TRUE, None, [m \in Markers |-> NoEvent])
    /\ since = [m \in Markers |-> NoEvent]

\* set_human_command(command)
set_human_command(command) ==
    /\ human_command' = command
    /\ human_control_active' = TRUE
    /\ arb_last' = Called("set_human_command", command, None,
                           human_control_active, human_command, since)
    /\ since' = Note(since, "set_human_command", {"record"})

\* release_human_control()
release_human_control ==
    /\ human_command' = None
    /\ human_control_active' = FALSE
    /\ arb_last' = Called("release", None, None,
                           human_control_active, human_command, since)
    /\ since' = Note(since, "release", {})

\* The pending command after set_human_control_active(is_active)
ClearOnTakeBack_unlessAlready(is_active, was_active, pending) ==
    IF is_active /\ was_active # is_active THEN None ELSE pending

ClearOnTakeBack(is_active, was_active, pending) ==
    IF is_active THEN None ELSE pending

\* set_human_control_active(is_active)
set_human_control_active(is_active) ==
    /\ human_control_active' = is_active
    /\ human_command' = ClearOnTakeBack(is_active, human_control_active, human_command)
    /\ arb_last' = Called(IF is_active THEN "set_active_true" ELSE "set_active_false",
                           None, None, human_control_active, human_command, since)
    /\ since' = Note(since, IF is_active THEN "set_active_true" ELSE "set_active_false",
                     IF is_active THEN {"takeback"} ELSE {})

\* arbitrate_command: the returned command and the pending slot afterwards
ArbitrateResult_passthrough(active, pending, llm_proposed_command) ==
    IF active /\ Truthy(pending)
    THEN [ret |-> pending, pending |-> None]
    ELSE [ret |-> llm_proposed_command, pending |-> pending]

ArbitrateResult_noclear(active, pending, llm_proposed_command) ==
    IF active
    THEN IF Truthy(pending)
         THEN [ret |-> pending, pending |-> pending]
         ELSE [ret |-> DoNothingHold, pending |-> pending]
    ELSE [ret |-> llm_proposed_command, pending |-> pending]

ArbitrateResult_nocheck(active, pending, llm_proposed_command) ==
    IF active
    THEN [ret |-> pending, pending |-> None]
    ELSE [ret |-> llm_proposed_command, pending |-> pending]

ArbitrateResult_holdalways(active, pending, llm_proposed_command) ==
    IF active
    THEN IF Truthy(pending)
         THEN [ret |-> pending, pending |-> None]
         ELSE [ret |-> DoNothingHold, pending |-> pending]
    ELSE [ret |-> DoNothingHold, pending |-> None]

ArbitrateResult(active, pending, llm_proposed_command) ==
    IF active
    THEN IF Truthy(pending)
         THEN [ret |-> pending, pending |-> None]
         ELSE [ret |-> DoNothingHold, pending |-> pending]
    ELSE [ret |-> llm_proposed_command, pending |-> pending]

arbitrate_command(llm_proposed_command) ==
    LET r == ArbitrateResult(human_control_active, human_command, llm_proposed_command)
        consumed == human_control_active /\ Truthy(human_command)
    IN  /\ human_command' = r.pending
        /\ UNCHANGED human_control_active
        /\ arb_last' = Called("arbitrate", llm_proposed_command, r.ret,
                               human_control_active, human_command, since)
        /\ since' = Note(since, "arbitrate", IF consumed THEN {"consume"} ELSE {})

(***************************************************************************)
(* CommandExecutor: values                                                 *)
(***************************************************************************)

\* Bounds of the model: how many task objects of each kind can exist at once
MaxStreamTasks == 2
MaxFollowTasks == 2

\* command_executor.py:63, for i in range(10)
PrimingCount == 10

StreamIds == 1..MaxStreamTasks
FollowIds == 1..MaxFollowTasks

\* PositionNedYaw(north_m, east_m, down_m, yaw_deg)
PositionNedYaw(n, e, d, y) == [north_m |-> n, east_m |-> e, down_m |-> d, yaw_deg |-> y]

\* command_executor.py:28
InitialSetpoint == PositionNedYaw(0, 0, 0, 0)

\* command_executor.py:119, the setpoint used when no position can be read
FallbackSetpoint == PositionNedYaw(0, 0, -10, 0)

\* self._target_info = None
NoTarget == [id |-> "None"]

\* What _read_stream_value(position_velocity_ned) can return: a position, or
\* None after a timeout or a stream error
NoPosition == [timeout |-> TRUE]
DronePositions == { [north_m |-> 0, east_m |-> 0, down_m |-> -5],
                    [north_m |-> 3, east_m |-> 4, down_m |-> -5] }
PositionReads == DronePositions \cup {NoPosition}

\* Before the vehicle received any setpoint
NoSetpoint == [north_m |-> "None"]

\* Parameter dicts of the commands given to execute_command
GotoParams == [north_m |-> 6, east_m |-> 8, altitude_m |-> 10]
FollowParams == [target_id |-> "person_1", target_north_m |-> 3, target_east_m |-> 4,
                 target_down_m |-> 0, follow_distance_m |-> 2, follow_altitude_m |-> 5]
FollowParamsNear == [target_north_m |-> 0, target_east_m |-> 0,
                     target_down_m |-> 0, follow_distance_m |-> 5, follow_altitude_m |-> 5]

\* Commands handed to execute_command by any caller: every known action, with
\* its parameters present or missing, and an action the executor does not know
ExecCommands ==
    { Cmd("takeoff", [altitude_m |-> 10], "any"),
      Cmd("takeoff", [altitude_m |-> 0], "any"),
      Cmd("takeoff", [altitude_m |-> -3], "any"),
      Cmd("land", NoParams, "any"),
      Cmd("disarm", NoParams, "any"),
      Cmd("goto_location", GotoParams, "any"),
      Cmd("goto_location", [north_m |-> 6, east_m |-> 8], "any"),
      Cmd("goto_location", NoParams, "any"),
      Cmd("follow_target", FollowParams, "any"),
      Cmd("follow_target", FollowParamsNear, "any"),
      Cmd("follow_target", NoParams, "any"),
      Cmd("do_nothing", NoParams, "any"),
      Cmd("hover", NoParams, "any") }

\* command.get("action"); command.get("parameters", {})
ActionOf(command) == command.action
ParamsOf(command) == IF Has(command, "parameters") THEN command.parameters ELSE NoParams

(***************************************************************************)
(* The executor's world as one value, so that the code between two awaits  *)
(* composes as functions: W is the current state, Apply(w) makes w the     *)
(* next state.                                                             *)
(***************************************************************************)
W == [offboard_setpoint_task |-> offboard_setpoint_task,
      offboard_active |-> offboard_active,
      current_offboard_setpoint |-> current_offboard_setpoint,
      target_info |-> target_info,
      follow_distance_m |-> follow_distance_m,
      follow_altitude_m |-> follow_altitude_m,
      follow_task |-> follow_task,
      stream_tasks |-> stream_tasks,
      follow_tasks |-> follow_tasks,
      exec |-> exec,
      is_connected |-> is_connected,
      vehicle |-> vehicle]

\* A finished task object disappears once nothing refers to it: neither the
\* executor's handle nor a coroutine awaiting it
StreamAwaited(w, t) ==
    \/ w.exec.pc \in {"L55", "L91"} /\ w.exec.wait = t
    \/ \E f \in FollowIds : w.follow_tasks[f].pc = "L55" /\ w.follow_tasks[f].wait = t

Collect(w) ==
    [w EXCEPT
        !.stream_tasks = [t \in StreamIds |->
            IF /\ w.stream_tasks[t] = "done"
               /\ w.offboard_setpoint_task # t
               /\ ~StreamAwaited(w, t)
            THEN "free" ELSE w.stream_tasks[t]],
        !.follow_tasks = [f \in FollowIds |->
            IF /\ w.follow_tasks[f].pc = "done"
               /\ w.follow_task # f
               /\ ~(w.exec.pc = "L266" /\ w.exec.wait = f)
            THEN [pc |-> "free", cancel |-> FALSE, i |-> 0, wait |-> 0]
            ELSE w.follow_tasks[f]]]

Apply(w0) ==
    LET w == Collect(w0)
    IN  /\ offboard_setpoint_task' = w.offboard_setpoint_task
        /\ offboard_active' = w.offboard_active
        /\ current_offboard_setpoint' = w.current_offboard_setpoint
        /\ target_info' = w.target_info
        /\ follow_distance_m' = w.follow_distance_m
        /\ follow_altitude_m' = w.follow_altitude_m
        /\ follow_task' = w.follow_task
        /\ stream_tasks' = w.stream_tasks
        /\ follow_tasks' = w.follow_tasks
        /\ exec' = w.exec
        /\ is_connected' = w.is_connected
        /\ vehicle' = w.vehicle

\* A step of the executor or of one of its tasks: nothing else changes
Run(w) == Apply(w) /\ UNCHANGED <<arbVars, mainVars>>

\* task.done()
StreamDone(w, t) == w.stream_tasks[t] = "done"
FollowDone(w, f) == w.follow_tasks[f].pc = "done"

\* A task that was created and has not terminated
LiveStreams(w) == {t \in StreamIds : w.stream_tasks[t] \in {"live", "cancelling"}}
LiveFollows(w) == {f \in FollowIds : w.follow_tasks[f].pc \notin {"free", "done"}}

FreeStream(w) == CHOOSE t \in StreamIds :
    /\ w.stream_tasks[t] = "free"
    /\ \A u \in StreamIds : w.stream_tasks[u] = "free" => t <= u
FreeFollow(w) == CHOOSE f \in FollowIds :
    /\ w.follow_tasks[f].pc = "free"
    /\ \A g \in FollowIds : w.follow_tasks[g].pc = "free" => f <= g

\* The model can hold another task object of the kind
CanCreateStream(w) == \E t \in StreamIds : w.stream_tasks[t] = "free"
CanCreateFollow(w) == \E f \in FollowIds : w.follow_tasks[f].pc = "free"

\* The coroutine frame of the caller of _start_offboard_setpoint_stream:
\* 0 is execute_command, f > 0 the follow task f
Frame(w, who) == IF who = 0 THEN w.exec ELSE w.follow_tasks[who]
WithFrame(w, who, fr) ==
    IF who = 0 THEN [w EXCEPT !.exec = fr] ELSE [w EXCEPT !.follow_tasks[who] = fr]
Suspend(w, who, pc) == WithFrame(w, who, [Frame(w, who) EXCEPT !.pc = pc])

\* The vehicle link fails when the environment makes it: any number of times,
\* or as many times as vehicle.faults still allows
AnyFaults == [limited |-> FALSE, left |-> 0]
AtMostFaults(n) == [limited |-> TRUE, left |-> n]
MayFail == ~vehicle.faults.limited \/ vehicle.faults.left > 0
Failure(w) ==
    IF w.vehicle.faults.limited THEN [w EXCEPT !.vehicle.faults.left = @ - 1] ELSE w
Outcome(w, o) == IF o = "ok" THEN w ELSE Failure(w)
Reading(w, pos) == IF pos = NoPosition THEN Failure(w) ELSE w

\* drone.offboard.set_position_ned(setpoint) accepted by the vehicle
Received(w, sp) ==
    [w EXCEPT !.vehicle.setpoint = sp,
              !.vehicle.primed = IF @ < PrimingCount THEN @ + 1 ELSE @]

(***************************************************************************)
(* asyncio task cancellation.  Task.cancel() on a task suspended at a      *)
(* sleep or a vehicle call makes its next step raise CancelledError at     *)
(* that await.  On a task that is itself awaiting another task, cancel()   *)
(* is passed on to the awaited task and is not recorded on the awaiting    *)
(* one: send_setpoints_loop catches CancelledError and ends normally, and  *)
(* line 56 catches a CancelledError raised at line 55, so a follow task    *)
(* cancelled while it waits at line 55 simply goes on.                     *)
(***************************************************************************)
CancelStream(w, t) ==
    [w EXCEPT !.stream_tasks[t] = IF @ = "live" THEN "cancelling" ELSE @]

CancelFollow(w, f) ==
    IF w.follow_tasks[f].pc = "L55"
    THEN CancelStream(w, w.follow_tasks[f].wait)
    ELSE [w EXCEPT !.follow_tasks[f].cancel = TRUE]

(***************************************************************************)
(* execute_command returns (also through its except clauses, lines         *)
(* 397-405, which turn every exception into False)                         *)
(***************************************************************************)
ExecReturn(w, v) ==
    [w EXCEPT !.exec.pc = "idle", !.exec.ret = v, !.exec.ctx = "none",
              !.exec.i = 0, !.exec.wait = 0]

\* A vehicle call made by execute_command, and one that failed
Called_link(w, name) == [w EXCEPT !.exec.calls = Append(@, name)]
Failed_link(w, name) == [w EXCEPT !.exec.failed = @ \cup {name}]

\* The finally clause without line 246
FollowFinally_keephandle(w, f) ==
    [w EXCEPT !.target_info = NoTarget,
              !.follow_tasks[f] = [pc |-> "done", cancel |-> FALSE, i |-> 0, wait |-> 0]]

\* _follow_target_loop, lines 244-246: the finally clause, then the task ends
FollowFinally(w, f) ==
    [w EXCEPT !.target_info = NoTarget,
              !.follow_task = 0,
              !.follow_tasks[f] = [pc |-> "done", cancel |-> FALSE, i |-> 0, wait |-> 0]]

\* The call of _start_offboard_setpoint_stream returned to its caller:
\* execute_command goes on by the place it called from (line 121 in
\* _try_set_offboard_mode; lines 329 and 391 return True), the follow loop
\* sleeps at line 239
StartReturned(w, who) ==
    IF who = 0
    THEN IF w.exec.ctx = "try_offboard" THEN Suspend(w, 0, "L121")
         ELSE ExecReturn(w, "True")
    ELSE Suspend(w, who, "L239")

\* An exception leaves _start_offboard_setpoint_stream: execute_command
\* returns False (lines 400-405), the follow loop logs it (line 242) and ends
StartRaised(w, who) ==
    IF who = 0 THEN ExecReturn(w, "False") ELSE FollowFinally(w, who)

(***************************************************************************)
(* _start_offboard_setpoint_stream, lines 38-81, run by `who`              *)
(***************************************************************************)
\* lines 63-64 with a priming loop of a single transmission
Prime_once(w, who) ==
    WithFrame(w, who, [Frame(w, who) EXCEPT !.pc = "L64", !.i = PrimingCount - 1,
                                            !.wait = 0])

\* lines 63-64: the priming loop starts, suspended in the first transmission
Prime(w, who) ==
    WithFrame(w, who, [Frame(w, who) EXCEPT !.pc = "L64", !.i = 0, !.wait = 0])

\* lines 49-55 without the await of the cancelled task
StartStream_nojoin(w, who, sp) ==
    LET w1 == [w EXCEPT !.current_offboard_setpoint = sp]
        t == w1.offboard_setpoint_task
    IN  IF t # 0 /\ ~StreamDone(w1, t)
        THEN Prime([CancelStream(w1, t) EXCEPT !.offboard_setpoint_task = 0], who)
        ELSE Prime(w1, who)

\* lines 49-55: store the setpoint; cancel a running stream task and await it
StartStream(w, who, sp) ==
    LET w1 == [w EXCEPT !.current_offboard_setpoint = sp]
        t == w1.offboard_setpoint_task
    IN  IF t # 0 /\ ~StreamDone(w1, t)
        THEN WithFrame(CancelStream(w1, t), who,
                       [Frame(w1, who) EXCEPT !.pc = "L55", !.wait = t])
        ELSE Prime(w1, who)

\* lines 56-64: the cancelled task has ended
AfterJoinOld(w, who) ==
    Prime([w EXCEPT !.offboard_setpoint_task = 0], who)

\* line 64 returned or raised
AfterPrimeSend(w, who, o) ==
    IF o = "ok"
    THEN Suspend(Received(w, w.current_offboard_setpoint), who, "L65")
    ELSE StartRaised(IF who = 0 THEN Failed_link(w, "set_position_ned") ELSE w, who)

\* lines 79-80: the new stream task
Launch(w) ==
    LET t == FreeStream(w)
    IN  [w EXCEPT !.stream_tasks[t] = "live",
                  !.offboard_setpoint_task = t,
                  !.offboard_active = TRUE]

\* line 65 slept: next transmission, or lines 67-81 after the last one
AfterPrimeSleep(w, who) ==
    LET fr == Frame(w, who)
    IN  IF fr.i + 1 < PrimingCount
        THEN WithFrame(w, who, [fr EXCEPT !.pc = "L64", !.i = fr.i + 1])
        ELSE StartReturned(WithFrame(Launch(w), who, [fr EXCEPT !.i = 0]), who)

(***************************************************************************)
(* send_setpoints_loop, lines 67-77: one task t                            *)
(***************************************************************************)
\* lines 72-73: one transmission of the current setpoint
StreamSend(t) ==
    /\ stream_tasks[t] = "live"
    /\ Run(Received(W, current_offboard_setpoint))

\* line 72 raises: lines 76-77, the task ends
StreamFail(t) ==
    /\ stream_tasks[t] = "live"
    /\ MayFail
    /\ Run(Failure([W EXCEPT !.stream_tasks[t] = "done"]))

\* cancelled: lines 74-75, the task ends
StreamCancelled(t) ==
    /\ stream_tasks[t] = "cancelling"
    /\ Run([W EXCEPT !.stream_tasks[t] = "done"])

(***************************************************************************)
(* _follow_target_loop, lines 161-246: one task f                          *)
(***************************************************************************)
\* line 173-174: the top of the while loop, up to the read of the position
FollowLoopTop(w, f) ==
    IF w.target_info = NoTarget
    THEN FollowFinally(w, f)
    ELSE Suspend(w, f, "L174")

\* The first step of the task.  Line 166 is outside the try: with no target
\* it raises and the task ends without its finally clause.
FollowStart(f) ==
    /\ follow_tasks[f].pc = "new"
    /\ ~follow_tasks[f].cancel
    /\ Run(IF target_info = NoTarget
             THEN [W EXCEPT !.follow_tasks[f].pc = "done"]
             ELSE FollowLoopTop(W, f))

\* lines 211-213: the desired position
Desired(w) == PositionNedYaw(w.target_info.north_m, w.target_info.east_m,
                             -w.follow_altitude_m, 0)

\* lines 216-221: horizontal_distance > self._follow_distance_m, where
\* horizontal_distance = sqrt(dx**2 + dy**2)
Sq(x) == x * x
TooFar(w, pos) ==
    LET dx == Desired(w).north_m - pos.north_m
        dy == Desired(w).east_m - pos.east_m
    IN  \/ w.follow_distance_m < 0
        \/ Sq(dx) + Sq(dy) > Sq(w.follow_distance_m)

\* lines 175-239 after the read at line 174 returned pos
FollowAfterRead(w, f, pos) ==
    IF pos = NoPosition THEN Suspend(w, f, "L177")
    ELSE IF w.target_info = NoTarget THEN FollowFinally(w, f)
    ELSE IF TooFar(w, pos) THEN StartStream(w, f, Desired(w))
    ELSE Suspend(w, f, "L239")

FollowRead(f) ==
    /\ follow_tasks[f].pc = "L174"
    /\ ~follow_tasks[f].cancel
    /\ \E pos \in PositionReads :
          (pos # NoPosition \/ MayFail) /\ Run(Reading(FollowAfterRead(W, f, pos), pos))

\* lines 177-178 and 239: the sleep is over, next iteration
FollowSlept(f) ==
    /\ follow_tasks[f].pc \in {"L177", "L239"}
    /\ ~follow_tasks[f].cancel
    /\ Run(FollowLoopTop(W, f))

\* line 55: the cancelled stream task has ended
FollowJoinOld(f) ==
    /\ follow_tasks[f].pc = "L55"
    /\ StreamDone(W, follow_tasks[f].wait)
    /\ Run(AfterJoinOld(W, f))

\* line 64
FollowPrimeSend(f) ==
    /\ follow_tasks[f].pc = "L64"
    /\ ~follow_tasks[f].cancel
    /\ \E o \in {"ok", "raise"} :
          (o = "ok" \/ MayFail) /\ Run(Outcome(AfterPrimeSend(W, f, o), o))

\* line 65
FollowPrimeSleep(f) ==
    /\ follow_tasks[f].pc = "L65"
    /\ ~follow_tasks[f].cancel
    /\ follow_tasks[f].i + 1 < PrimingCount \/ CanCreateStream(W)
    /\ Run(AfterPrimeSleep(W, f))

\* CancelledError raised at the await where the task is suspended: lines
\* 240-246.  A task cancelled before its first step never enters the try.
FollowCancelled(f) ==
    /\ follow_tasks[f].cancel
    /\ follow_tasks[f].pc \notin {"free", "done"}
    /\ Run(IF follow_tasks[f].pc = "new"
             THEN [W EXCEPT !.follow_tasks[f] =
                        [pc |-> "done", cancel |-> FALSE, i |-> 0, wait |-> 0]]
             ELSE FollowFinally(W, f))

(***************************************************************************)
(* _stop_offboard_setpoint_stream, lines 84-96, called by execute_command  *)
(* from `ctx`: "exec" is line 275, "offboard_fail" lines 132 and 137       *)
(***************************************************************************)
\* lines 94-95, after the cancelled task ended
StopJoined(w) ==
    [w EXCEPT !.offboard_setpoint_task = 0,
              !.offboard_active = FALSE,
              !.vehicle.primed = 0]

\* The call returned: line 276 sleeps; _try_set_offboard_mode returns False
\* and execute_command returns False (lines 318-320, 360-362)
AfterStop(w, ctx) ==
    CASE ctx = "exec" -> Suspend(w, 0, "L276")
      [] ctx = "offboard_fail" -> ExecReturn(w, "False")
      [] ctx = "cleanup" -> [w EXCEPT !.exec.pc = "idle", !.exec.ctx = "none", !.exec.wait = 0]

\* lines 88-91: awaiting a task that is already done does not suspend
StopStream(w, ctx) ==
    LET t == w.offboard_setpoint_task
        w1 == CancelStream(w, t)
    IN  IF t = 0 THEN AfterStop(w, ctx)
        ELSE IF StreamDone(w1, t) THEN AfterStop(StopJoined(w1), ctx)
        ELSE [w1 EXCEPT !.exec.pc = "L91", !.exec.wait = t, !.exec.ctx = ctx]

(***************************************************************************)
(* _try_set_offboard_mode, lines 98-138                                    *)
(***************************************************************************)
\* lines 123-125: the mode switch is requested
RequestOffboard(w) == Suspend(Called_link(w, "offboard_start"), 0, "L125")

\* lines 104-106
TrySetOffboard(w) ==
    IF ~w.offboard_active
    THEN [w EXCEPT !.exec.pc = "L106", !.exec.ctx = "try_offboard"]
    ELSE RequestOffboard(w)

\* lines 108-119 after the read at line 106
AfterReadForOffboard(w, pos) ==
    StartStream(w, 0,
        IF pos = NoPosition THEN FallbackSetpoint
        ELSE PositionNedYaw(pos.north_m, pos.east_m, pos.down_m, 0))

(***************************************************************************)
(* execute_command, lines 248-405                                          *)
(***************************************************************************)
\* line 273 without do_nothing
OffboardActions_nohold == {"goto_location", "follow_target"}

OffboardActions == {"goto_location", "follow_target", "do_nothing"}

\* lines 307-313 without the check of altitude_m
GotoRequired_noaltitude == {"north_m", "east_m"}

GotoRequired == {"north_m", "east_m", "altitude_m"}
FollowRequired == {"target_north_m", "target_east_m", "target_down_m",
                   "follow_distance_m", "follow_altitude_m"}

\* lines 323-327
GotoSetpoint(p) == PositionNedYaw(p.north_m, p.east_m, -p.altitude_m, 0)

GotoStream(w) ==
    StartStream([w EXCEPT !.exec.ctx = "goto"], 0, GotoSetpoint(ParamsOf(w.exec.command)))

\* line 366
\* line 366 taken as true whatever the handle holds
NeedsFollowTask_always(w) == TRUE

NeedsFollowTask(w) == w.follow_task = 0 \/ FollowDone(w, w.follow_task)

\* lines 366-371
StartFollow(w) ==
    IF NeedsFollowTask(w)
    THEN LET f == FreeFollow(w)
         IN  ExecReturn([w EXCEPT !.follow_tasks[f] =
                                      [pc |-> "new", cancel |-> FALSE, i |-> 0, wait |-> 0],
                                  !.follow_task = f], "True")
    ELSE ExecReturn(w, "True")

\* lines 346-353
SetTarget(w, p) ==
    [w EXCEPT !.target_info = [id |-> IF Has(p, "target_id") THEN p.target_id
                                      ELSE "unknown_target",
                               north_m |-> p.target_north_m,
                               east_m |-> p.target_east_m,
                               down_m |-> p.target_down_m],
              !.follow_distance_m = p.follow_distance_m,
              !.follow_altitude_m = p.follow_altitude_m]

\* lines 278-395: the branch of the action, up to its first await
Dispatch(w) ==
    LET action == ActionOf(w.exec.command)
        params == ParamsOf(w.exec.command)
    IN  CASE action = "takeoff" ->
               IF ~w.is_connected THEN ExecReturn(w, "False")
               ELSE Suspend(Called_link(w, "arm"), 0, "L282")
          [] action = "land" ->
               IF ~w.is_connected THEN ExecReturn(w, "False")
               ELSE Suspend(Called_link(w, "land"), 0, "L291")
          [] action = "disarm" ->
               IF ~w.is_connected THEN ExecReturn(w, "False")
               ELSE Suspend(Called_link(w, "disarm"), 0, "L300")
          [] action = "goto_location" ->
               IF ~w.is_connected THEN ExecReturn(w, "False")
               ELSE IF \E k \in GotoRequired : ~Has(params, k) THEN ExecReturn(w, "False")
               ELSE IF ~w.offboard_active THEN TrySetOffboard(w)
               ELSE GotoStream(w)
          [] action = "follow_target" ->
               IF ~w.is_connected THEN ExecReturn(w, "False")
               ELSE IF \E k \in FollowRequired : ~Has(params, k) THEN ExecReturn(w, "False")
               ELSE IF ~w.offboard_active THEN TrySetOffboard(SetTarget(w, params))
               ELSE StartFollow(SetTarget(w, params))
          [] action = "do_nothing" ->
               IF /\ w.offboard_active
                  /\ (w.offboard_setpoint_task = 0 \/ StreamDone(w, w.offboard_setpoint_task))
               THEN Suspend(w, 0, "L377")
               ELSE ExecReturn(w, "True")
          [] OTHER -> ExecReturn(w, "False")

\* lines 272-276
StopForAction(w) ==
    IF w.offboard_active /\ ActionOf(w.exec.command) \notin OffboardActions
    THEN StopStream(w, "exec")
    ELSE Dispatch(w)

\* lines 254-278 without the cancellation of the follow task at lines 261-270
ExecEnter_nocancel(w, command) ==
    StopForAction([w EXCEPT !.exec = [pc |-> "run", command |-> command, ctx |-> "none",
                                      i |-> 0, wait |-> 0, ret |-> "None",
                                      failed |-> {}, calls |-> <<>>]])

\* lines 254-266: the call, up to its first await.  A call that meets no
\* await returns in the same step.
ExecEnter(w, command) ==
    LET w1 == [w EXCEPT !.exec = [pc |-> "run", command |-> command, ctx |-> "none",
                                  i |-> 0, wait |-> 0, ret |-> "None",
                                  failed |-> {}, calls |-> <<>>]]
        f == w.follow_task
    IN  IF f # 0 /\ ~FollowDone(w1, f) /\ ActionOf(command) # "follow_target"
        THEN [CancelFollow(w1, f) EXCEPT !.exec.pc = "L266", !.exec.wait = f]
        ELSE StopForAction(w1)

\* lines 266-270: the cancelled follow task has ended
AfterJoinFollow(w) ==
    StopForAction([w EXCEPT !.target_info = NoTarget, !.follow_task = 0])

\* line 91: the cancelled stream task has ended
AfterJoinStop(w) == AfterStop(StopJoined(w), w.exec.ctx)

\* lines 125-138 without the stop of the stream at lines 131-132 and 136-137
AfterOffboardStart_nostop(w, o) ==
    IF o = "ok"
    THEN Suspend([w EXCEPT !.vehicle.offboard = TRUE], 0,
                 IF ActionOf(w.exec.command) = "goto_location" THEN "L321" ELSE "L363")
    ELSE ExecReturn(Failed_link(w, "offboard_start"), "False")

\* lines 125-138: offboard.start() returned or raised
AfterOffboardStart(w, o) ==
    IF o = "ok"
    THEN Suspend([w EXCEPT !.vehicle.offboard = TRUE], 0,
                 IF ActionOf(w.exec.command) = "goto_location" THEN "L321" ELSE "L363")
    ELSE IF w.offboard_active
         THEN StopStream(Failed_link(w, "offboard_start"), "offboard_fail")
         ELSE ExecReturn(Failed_link(w, "offboard_start"), "False")

\* lines 282-285
\* lines 282-284 without the test of arm's result
AfterArm_unchecked(w, o) ==
    Suspend(Called_link(IF o = "ok" THEN w ELSE Failed_link(w, "arm"), "takeoff"), 0, "L284")

AfterArm(w, o) ==
    IF o = "ok" THEN Suspend(Called_link(w, "takeoff"), 0, "L284")
    ELSE ExecReturn(Failed_link(w, "arm"), "False")

AfterTakeoff(w, o) ==
    IF o = "ok" THEN ExecReturn(w, "True")
    ELSE ExecReturn(Failed_link(w, "takeoff"), "False")

\* lines 291-294
AfterLand(w, o) ==
    IF o = "ok" THEN Suspend(Called_link(w, "disarm"), 0, "L293")
    ELSE ExecReturn(Failed_link(w, "land"), "False")

\* line 293: the result of disarm is dropped; an exception is caught at 397-405
AfterLandDisarm(w, o) ==
    CASE o = "ok" -> ExecReturn(w, "True")
      [] o = "false" -> ExecReturn(Failed_link(w, "disarm"), "True")
      [] OTHER -> ExecReturn(Failed_link(w, "disarm"), "False")

\* line 300
AfterDisarm(w, o) ==
    IF o = "ok" THEN ExecReturn(w, "True")
    ELSE ExecReturn(Failed_link(w, "disarm"), "False")

\* lines 140-159 and 391: _try_set_hold_mode; its result is dropped
AfterOffboardStop(w, o) ==
    IF o = "ok"
    THEN ExecReturn([w EXCEPT !.offboard_active = FALSE,
                              !.vehicle.offboard = FALSE,
                              !.vehicle.primed = 0], "True")
    ELSE ExecReturn(Failed_link(w, "offboard_stop"), "True")

\* lines 378-391 after the read at line 377
AfterReadDoNothing(w, pos) ==
    IF pos # NoPosition
    THEN StartStream([w EXCEPT !.exec.ctx = "do_nothing"], 0,
                     PositionNedYaw(pos.north_m, pos.east_m, pos.down_m, 0))
    ELSE IF w.offboard_active
         THEN Suspend(Called_link(w, "offboard_stop"), 0, "L148")
         ELSE ExecReturn(w, "True")

(***************************************************************************)
(* The steps of execute_command: one action per await                      *)
(***************************************************************************)
\* Outcomes of the vehicle calls: the MAVSDKInterface methods return True or
\* False, or raise; the raw offboard calls return or raise
BoolOutcomes == {"ok", "false"}
CallOutcomes == {"ok", "false", "raise"}
RawOutcomes == {"ok", "raise"}

\* execute_command(command) is called: lines 254-278 up to the first await
Call(command) ==
    /\ exec.pc = "idle"
    /\ ActionOf(command) = "follow_target" /\ NeedsFollowTask(W) => CanCreateFollow(W)
    /\ Run(ExecEnter(W, command))

\* line 266
ExecJoinFollow ==
    /\ exec.pc = "L266"
    /\ FollowDone(W, exec.wait)
    /\ Run(AfterJoinFollow(W))

\* line 91
ExecJoinStop ==
    /\ exec.pc = "L91"
    /\ StreamDone(W, exec.wait)
    /\ Run(AfterJoinStop(W))

\* line 276
ExecSettled ==
    /\ exec.pc = "L276"
    /\ Run(Dispatch(W))

\* line 282
ExecArm ==
    /\ exec.pc = "L282"
    /\ \E o \in CallOutcomes :
          (o = "ok" \/ MayFail) /\ Run(Outcome(AfterArm(W, o), o))

\* line 284
ExecTakeoff ==
    /\ exec.pc = "L284"
    /\ \E o \in BoolOutcomes :
          (o = "ok" \/ MayFail) /\ Run(Outcome(AfterTakeoff(W, o), o))

\* line 291
ExecLand ==
    /\ exec.pc = "L291"
    /\ \E o \in BoolOutcomes :
          (o = "ok" \/ MayFail) /\ Run(Outcome(AfterLand(W, o), o))

\* line 293
ExecLandDisarm ==
    /\ exec.pc = "L293"
    /\ \E o \in CallOutcomes :
          (o = "ok" \/ MayFail) /\ Run(Outcome(AfterLandDisarm(W, o), o))

\* line 300
ExecDisarm ==
    /\ exec.pc = "L300"
    /\ \E o \in CallOutcomes :
          (o = "ok" \/ MayFail) /\ Run(Outcome(AfterDisarm(W, o), o))

\* line 106
ExecReadForOffboard ==
    /\ exec.pc = "L106"
    /\ \E pos \in PositionReads :
          (pos # NoPosition \/ MayFail) /\ Run(Reading(AfterReadForOffboard(W, pos), pos))

\* line 55
ExecJoinOld ==
    /\ exec.pc = "L55"
    /\ StreamDone(W, exec.wait)
    /\ Run(AfterJoinOld(W, 0))

\* line 64
ExecPrimeSend ==
    /\ exec.pc = "L64"
    /\ \E o \in RawOutcomes :
          (o = "ok" \/ MayFail) /\ Run(Outcome(AfterPrimeSend(W, 0, o), o))

\* line 65
ExecPrimeSleep ==
    /\ exec.pc = "L65"
    /\ exec.i + 1 < PrimingCount \/ CanCreateStream(W)
    /\ Run(AfterPrimeSleep(W, 0))

\* line 121
ExecStreamSettled ==
    /\ exec.pc = "L121"
    /\ Run(RequestOffboard(W))

\* line 125
ExecOffboardStart ==
    /\ exec.pc = "L125"
    /\ \E o \in RawOutcomes :
          (o = "ok" \/ MayFail) /\ Run(Outcome(AfterOffboardStart(W, o), o))

\* line 321
ExecGotoSettled ==
    /\ exec.pc = "L321"
    /\ Run(GotoStream(W))

\* line 363
ExecFollowSettled ==
    /\ exec.pc = "L363"
    /\ NeedsFollowTask(W) => CanCreateFollow(W)
    /\ Run(StartFollow(W))

\* line 377
ExecReadDoNothing ==
    /\ exec.pc = "L377"
    /\ \E pos \in PositionReads :
          (pos # NoPosition \/ MayFail) /\ Run(Reading(AfterReadDoNothing(W, pos), pos))

\* line 148
ExecOffboardStop ==
    /\ exec.pc = "L148"
    /\ \E o \in RawOutcomes :
          (o = "ok" \/ MayFail) /\ Run(Outcome(AfterOffboardStop(W, o), o))

(***************************************************************************)
(* main_controller.py: the human input task and the control loop           *)
(***************************************************************************)
\* Bound on the commands waiting in _human_command_queue
MaxQueue == 1

\* Bound on the failures of the vehicle link during one run of the control loop
MaxFaults == 1

\* main_controller.py:142, llm_decision_interval_loops is 50; the control
\* loop only uses llm_loop_count modulo the interval, and the model keeps the
\* count modulo a shorter interval
DecisionIntervalLoops == 2

\* config/settings.py, CRITICAL_BATTERY_PERCENTAGE
CRITICAL_BATTERY_PERCENTAGE == 20

\* What get_human_input_task puts in the queue, lines 50-98
HumanInputs ==
    { [action |-> "exit"],
      Cmd("land", NoParams, "Human override: manual land."),
      Cmd("disarm", NoParams, "Human override: manual disarm."),
      Cmd("takeoff", [altitude_m |-> 10], "Human commanded takeoff"),
      Cmd("goto_location", GotoParams, "Human commanded goto"),
      [action |-> "release", reason |-> "Human released control."],
      [action |-> "stop_follow", reason |-> "Human stopped LLM follow."],
      [action |-> "simulate_person", reason |-> "Human triggered mock person detection"],
      [action |-> "clear_detection", reason |-> "Human cleared mock detection."] }

\* line 144
StartupProposal == [action |-> "do_nothing", reason |-> "System startup, awaiting human input."]
\* line 260
NoTriggerProposal == [action |-> "do_nothing", reason |-> "No active trigger, LLM maintaining position."]
\* line 187
StopFollowCommand == [action |-> "do_nothing", reason |-> "Human stopped follow."]
\* line 284
EmergencyLand == [action |-> "land", reason |-> "Emergency: Critical Battery."]

\* What get_action_from_llm can return: a command, or nothing usable
NoAnswer == [none |-> TRUE]
LLMProposals ==
    { Cmd("follow_target", FollowParams, "llm"),
      Cmd("do_nothing", NoParams, "llm"),
      Cmd("land", NoParams, "llm") }
LLMAnswers == LLMProposals \cup {NoAnswer}

\* The reasons carried by the values of last_llm_proposed_action
AutonomousReasons == {"llm", StartupProposal.reason, NoTriggerProposal.reason}

\* Battery readings, in percent; _latest_battery is None before the first
NoBattery == -1
BatteryReads == {50, 10}

\* sim_telemetry_processor.py:104-112
is_battery_critical(battery, threshold_percent) ==
    battery # NoBattery /\ battery < threshold_percent

(***************************************************************************)
(* The state store (drone_state.py) and the camera processor               *)
(* (camera_processor.py).  A dict is kept by reference: the store's        *)
(* visual_insights field names the dict object it was handed, and what the *)
(* field shows is the content that object has now.                         *)
(***************************************************************************)

\* The dict made by DroneState.__init__ (line 16) and the one the camera
\* processor makes (camera_processor.py:17) and returns from
\* get_visual_insights (line 64)
OwnInsights == "DroneState._visual_insights"
CameraInsights == "CameraProcessor._visual_insights"

\* SimTelemetryProcessor.get_processed_data: a new dict at every call
Telemetry(battery, mode) == [battery |-> battery, flight_mode |-> mode]
FlightModes == {"HOLD", "OFFBOARD"}
FlightModeRead == IF vehicle.offboard THEN "OFFBOARD" ELSE "HOLD"

\* DroneState.__init__, lines 13-23
DroneStateInit ==
    [telemetry |-> <<>>,
     visual_insights |-> OwnInsights,
     current_flight_mode |-> "UNKNOWN",
     last_executed_command |-> [action |-> "none", reason |-> "System startup."],
     human_control_active |-> TRUE,
     llm_following |-> FALSE]

\* set_human_control_status that also ends the LLM's following
set_human_control_status_both(ds, is_active) ==
    [ds EXCEPT !.human_control_active = is_active, !.llm_following = FALSE]

\* The setters, lines 27-93
update_telemetry(ds, telemetry_data) == [ds EXCEPT !.telemetry = telemetry_data]
update_visual_insights(ds, visual_insights) == [ds EXCEPT !.visual_insights = visual_insights]
set_last_executed_command(ds, command) == [ds EXCEPT !.last_executed_command = command]
set_human_control_status(ds, is_active) ==
    IF ds.human_control_active # is_active
    THEN [ds EXCEPT !.human_control_active = is_active] ELSE ds
set_llm_following_status(ds, is_active) ==
    IF ds.llm_following # is_active
    THEN [ds EXCEPT !.llm_following = is_active] ELSE ds
update_flight_mode(ds, flight_mode) == [ds EXCEPT !.current_flight_mode = flight_mode]

\* get_current_state, lines 95-110: a new dict whose values are the fields'
\* values, the dicts among them by reference
NoSnapshot == [none |-> TRUE]
get_current_state(ds) ==
    [telemetry |-> ds.telemetry,
     visual_insights |-> ds.visual_insights,
     current_flight_mode |-> ds.current_flight_mode,
     last_executed_command |-> ds.last_executed_command,
     human_control_active |-> ds.human_control_active,
     llm_following_active |-> ds.llm_following]

\* What a dict shows now: state.get("visual_insights", {}).get("detected_objects", [])
Deref(ref) == IF ref = CameraInsights THEN camera_insights ELSE <<>>

\* CameraProcessor, lines 25-58, 66-104 and 106-116
process_camera_feed ==
    /\ camera_insights' = IF detected THEN <<"person">> ELSE <<>>
    /\ UNCHANGED detected
simulate_detection ==
    /\ detected' = TRUE
    /\ UNCHANGED camera_insights
clear_detections ==
    /\ detected' = FALSE
    /\ camera_insights' = <<>>

\* main(), lines 140-153, on a connected interface
MainInitLocals ==
    /\ human_command_queue = <<>>
    /\ human_input_task = "reading"
    /\ ctl = [pc |-> "L208",
              llm_should_be_active |-> FALSE,
              llm_is_currently_following |-> FALSE,
              last_llm_proposed_action |-> StartupProposal,
              llm_loop_count |-> 0,
              mission_finished |-> FALSE]
    /\ detected = FALSE
    /\ camera_insights = <<>>
    /\ snapshot = NoSnapshot
    /\ latest_battery = NoBattery
    /\ drone_state = DroneStateInit

\* asyncio.Queue.put with the put at the wrong end
QueuePut_front(q, c) == <<c>> \o q

\* asyncio.Queue.put and asyncio.Queue.get: a FIFO queue (main_controller.py:24)
QueuePut(q, c) == Append(q, c)
QueueGet(q) == [item |-> Head(q), rest |-> Tail(q)]

\* One line read and queued while fewer than `room` commands are waiting
Enqueue(c, room) ==
    /\ human_input_task = "reading"
    /\ ctl.pc = "L294"
    /\ Len(human_command_queue) < room
    /\ human_command_queue' = QueuePut(human_command_queue, c)
    /\ human_input_task' = IF c.action = "exit" THEN "ended" ELSE "reading"
    /\ UNCHANGED <<arbVars, execVars, ctl, detected, camera_insights, snapshot, latest_battery, drone_state>>

\* get_human_input_task, lines 44-103: one line read and queued.  The queue
\* is read only by main() at line 158, after its sleep at line 294, and the
\* input task shares nothing else with the other coroutines: a line typed
\* during any await of a cycle is queued, at the latest, during that sleep
HumanTypes(c) == Enqueue(c, MaxQueue)

\* The frame of an execute_command call that is not in progress
NoCall == [pc |-> "idle", command |-> None, ctx |-> "none", i |-> 0, wait |-> 0,
           ret |-> "None", failed |-> {}, calls |-> <<>>]

\* main() has the result of the call it awaited: the call's frame is gone
TakeResult ==
    /\ exec' = NoCall
    /\ UNCHANGED <<offboard_setpoint_task, offboard_active, current_offboard_setpoint,
                   target_info, follow_distance_m, follow_altitude_m, follow_task,
                   stream_tasks, follow_tasks, is_connected, vehicle>>

\* main() calls execute_command(command) and is suspended at line pc until
\* it returns
MainExecute(c, command, pc) ==
    /\ Apply(ExecEnter(W, command))
    /\ ctl' = [c EXCEPT !.pc = pc]

\* lines 281-294
BatteryCheck(c) ==
    IF is_battery_critical(latest_battery', CRITICAL_BATTERY_PERCENTAGE)
    THEN MainExecute(c, EmergencyLand, "L284")
    ELSE ctl' = [c EXCEPT !.pc = "L294"] /\ TakeResult

\* lines 270-271: whether the control loop executes a command this cycle,
\* and which
ArbitrationStep_unguarded(active, pending, proposal) ==
    [execute |-> TRUE, command |-> proposal]
ArbitrationStep(active, pending, proposal) ==
    [execute |-> ~active,
     command |-> ArbitrateResult(active, pending, proposal).ret]

\* lines 265-294 up to the next await; takeback says line 254 ran this cycle
Arbitration(c0, takeback) ==
    LET c == [c0 EXCEPT !.llm_loop_count = (@ + 1) % DecisionIntervalLoops]
        a == ArbitrationStep(takeback \/ human_control_active, human_command,
                             c.last_llm_proposed_action)
    IN  IF a.execute
        THEN /\ arbitrate_command(c.last_llm_proposed_action)
             /\ MainExecute(c, a.command, "L272")
        ELSE /\ IF takeback THEN set_human_control_active(TRUE)
                            ELSE UNCHANGED arbVars
             /\ BatteryCheck(c)

\* mavsdk_interface.py:552-558, disconnect
Disconnected(w) == [w EXCEPT !.is_connected = FALSE, !.exec = NoCall]

\* lines 303-312 up to the next await: the stream task is stopped if it is
\* live; the input task is cancelled, and the interface disconnected, once
\* that is done
Cleanup(c) ==
    LET t == offboard_setpoint_task
    IN  /\ human_input_task' = IF human_input_task = "reading" THEN "cancelled"
                               ELSE human_input_task
        /\ IF t # 0 /\ ~StreamDone(W, t)
           THEN /\ Apply(StopStream(W, "cleanup"))
                /\ ctl' = [c EXCEPT !.pc = "L306"]
           ELSE /\ ctl' = [c EXCEPT !.pc = "done"]
                /\ Apply(Disconnected(W))

\* line 294 returns, then lines 155-205 up to the next await
MainWake ==
    /\ ctl.pc = "L294"
    /\ IF human_command_queue = <<>>
       THEN /\ ctl' = [ctl EXCEPT !.pc = "L208"]
            /\ UNCHANGED <<arbVars, execVars, human_command_queue, human_input_task,
                           detected, camera_insights, snapshot, latest_battery, drone_state>>
       ELSE LET human_cmd == QueueGet(human_command_queue).item
                action_type == human_cmd.action
            IN  /\ human_command_queue' = QueueGet(human_command_queue).rest
                /\ UNCHANGED latest_battery
                /\ CASE action_type = "exit" ->
                          /\ Cleanup([ctl EXCEPT !.mission_finished = TRUE])
                          /\ UNCHANGED <<arbVars, detected, camera_insights, snapshot, drone_state>>
                     [] action_type \in {"land", "disarm", "takeoff", "goto_location"} ->
                          /\ MainExecute(ctl, human_cmd, "L167")
                          /\ UNCHANGED <<arbVars, human_input_task, detected, camera_insights, snapshot, drone_state>>
                     [] action_type = "release" ->
                          /\ release_human_control
                          /\ drone_state' = [drone_state EXCEPT !.human_control_active = FALSE]
                          /\ ctl' = [ctl EXCEPT !.llm_should_be_active = TRUE,
                                                !.llm_loop_count = DecisionIntervalLoops - 1,
                                                !.pc = "L208"]
                          /\ UNCHANGED <<execVars, human_input_task, detected, camera_insights, snapshot>>
                     [] action_type = "stop_follow" ->
                          /\ set_human_control_active(TRUE)
                          /\ drone_state' = [drone_state EXCEPT !.human_control_active = TRUE,
                                                                !.llm_following = FALSE]
                          /\ MainExecute([ctl EXCEPT !.llm_is_currently_following = FALSE,
                                                     !.llm_should_be_active = FALSE],
                                         StopFollowCommand, "L187")
                          /\ UNCHANGED <<human_input_task, detected, camera_insights, snapshot>>
                     [] action_type = "simulate_person" ->
                          /\ simulate_detection
                          /\ UNCHANGED snapshot
                          /\ ctl' = [ctl EXCEPT !.pc = "L208"]
                          /\ UNCHANGED <<arbVars, execVars, human_input_task, drone_state>>
                     [] action_type = "clear_detection" ->
                          /\ clear_detections
                          /\ UNCHANGED snapshot
                          /\ ctl' = [ctl EXCEPT !.pc = "L208"]
                          /\ UNCHANGED <<arbVars, execVars, human_input_task, drone_state>>

\* lines 167-173: the human's flight command returned
MainAfterHumanFlight ==
    /\ ctl.pc = "L167"
    /\ exec.pc = "idle"
    /\ set_human_control_active(TRUE)
    /\ drone_state' = [drone_state EXCEPT !.last_executed_command = exec.command,
                                          !.human_control_active = TRUE]
    /\ ctl' = [ctl EXCEPT !.llm_should_be_active = FALSE,
                          !.llm_is_currently_following = FALSE,
                          !.pc = "L208"]
    /\ TakeResult
    /\ UNCHANGED <<human_command_queue, human_input_task, detected, camera_insights, snapshot, latest_battery>>

\* lines 187-188: the do_nothing of stop_follow returned
MainAfterStopFollow ==
    /\ ctl.pc = "L187"
    /\ exec.pc = "idle"
    /\ drone_state' = [drone_state EXCEPT !.last_executed_command = StopFollowCommand]
    /\ ctl' = [ctl EXCEPT !.pc = "L208"]
    /\ TakeResult
    /\ UNCHANGED <<arbVars, human_command_queue, human_input_task,
                   detected, camera_insights, snapshot, latest_battery>>

\* drone_state.py:184-195, generate_llm_prompt: the guidance for a paused LLM
\* reads no detected object; the guidance for a following LLM reads the type
\* of the primary detected object, which is None when nothing is detected,
\* and the attribute error ends the loop at main_controller.py:299-301
PromptRaises_never(ds, insights) == FALSE
PromptRaises(ds, insights) ==
    ~ds.human_control_active /\ ds.llm_following /\ insights = <<>>

\* lines 208-294 up to the next await: perception, the state store, and the
\* decision logic when no decision is asked of the LLM
MainPerceive ==
    /\ ctl.pc = "L208"
    /\ \E b \in BatteryReads :
          latest_battery' = IF b # NoBattery THEN b ELSE latest_battery
    /\ process_camera_feed
    /\ LET m == FlightModeRead IN
          drone_state' =
             set_llm_following_status(
               set_human_control_status(
                 update_flight_mode(
                   update_visual_insights(
                     update_telemetry(drone_state, Telemetry(latest_battery', m)),
                     CameraInsights),
                   m),
                 human_control_active),
               ctl.llm_is_currently_following)
    /\ UNCHANGED <<human_command_queue, snapshot>>
    /\ IF ctl.llm_should_be_active /\ ctl.llm_loop_count % DecisionIntervalLoops = 0
       THEN IF detected \/ ctl.llm_is_currently_following
            THEN IF PromptRaises(drone_state', camera_insights')
                 THEN /\ Cleanup([ctl EXCEPT !.mission_finished = TRUE])
                      /\ UNCHANGED arbVars
                 ELSE /\ ctl' = [ctl EXCEPT !.pc = "L236"]
                      /\ UNCHANGED <<arbVars, execVars, human_input_task>>
            ELSE /\ Arbitration([ctl EXCEPT !.last_llm_proposed_action = NoTriggerProposal,
                                            !.llm_loop_count = 0], FALSE)
                 /\ UNCHANGED human_input_task
       ELSE Arbitration(ctl, FALSE) /\ UNCHANGED human_input_task

\* lines 238-255: the locals after the LLM answered
Decided(c, answer) ==
    IF answer = NoAnswer THEN c
    ELSE LET c1 == [c EXCEPT !.last_llm_proposed_action = answer]
         IN  CASE answer.action = "follow_target" ->
                    [c1 EXCEPT !.llm_is_currently_following = TRUE]
               [] answer.action = "do_nothing" /\ c.llm_is_currently_following ->
                    [c1 EXCEPT !.llm_is_currently_following = FALSE]
               [] answer.action \in {"land", "disarm"} ->
                    [c1 EXCEPT !.llm_is_currently_following = FALSE,
                               !.llm_should_be_active = FALSE]
               [] OTHER -> c1

\* lines 236-294 up to the next await: the LLM answered
MainLLMAnswer ==
    /\ ctl.pc = "L236"
    /\ UNCHANGED <<human_command_queue, human_input_task, detected, camera_insights, snapshot, latest_battery>>
    /\ \E answer \in LLMAnswers :
          LET takeback == answer # NoAnswer /\ answer.action \in {"land", "disarm"}
          IN  /\ drone_state' = IF takeback
                                THEN [drone_state EXCEPT !.human_control_active = TRUE]
                                ELSE drone_state
              /\ Arbitration([Decided(ctl, answer) EXCEPT !.llm_loop_count = 0], takeback)

\* lines 272-294 if line 272 did not await the call it makes
MainAfterArbitrated_nowait ==
    /\ ctl.pc = "L272"
    /\ drone_state' = IF exec.ret = "True"
                      THEN [drone_state EXCEPT !.last_executed_command = exec.command]
                      ELSE drone_state
    /\ UNCHANGED <<arbVars, human_command_queue, human_input_task, detected, camera_insights, snapshot, latest_battery>>
    /\ BatteryCheck(ctl)

\* lines 272-294 up to the next await: the arbitrated command returned
MainAfterArbitrated ==
    /\ ctl.pc = "L272"
    /\ exec.pc = "idle"
    /\ drone_state' = IF exec.ret = "True"
                      THEN [drone_state EXCEPT !.last_executed_command = exec.command]
                      ELSE drone_state
    /\ UNCHANGED <<arbVars, human_command_queue, human_input_task, detected, camera_insights, snapshot, latest_battery>>
    /\ BatteryCheck(ctl)

\* lines 284-294: the emergency land returned
MainAfterEmergencyLand ==
    /\ ctl.pc = "L284"
    /\ exec.pc = "idle"
    /\ set_human_control_active(TRUE)
    /\ drone_state' = [drone_state EXCEPT !.last_executed_command = EmergencyLand,
                                          !.human_control_active = TRUE,
                                          !.llm_following = FALSE]
    /\ ctl' = [ctl EXCEPT !.llm_is_currently_following = FALSE,
                          !.llm_should_be_active = FALSE,
                          !.pc = "L294"]
    /\ TakeResult
    /\ UNCHANGED <<human_command_queue, human_input_task, detected, camera_insights, snapshot, latest_battery>>

\* lines 306-312: the stream task has been stopped
MainCleanupJoined ==
    /\ ctl.pc = "L306"
    /\ exec.pc = "idle"
    /\ ctl' = [ctl EXCEPT !.pc = "done"]
    /\ Apply(Disconnected(W))
    /\ UNCHANGED <<arbVars, human_command_queue, human_input_task,
                   detected, camera_insights, snapshot, latest_battery, drone_state>>

\* CommandExecutor.__init__, lines 19-36
ExecutorInit ==
    /\ offboard_setpoint_task = 0
    /\ offboard_active = FALSE
    /\ current_offboard_setpoint = InitialSetpoint
    /\ target_info = NoTarget
    /\ follow_distance_m = 0
    /\ follow_altitude_m = 0
    /\ follow_task = 0
    /\ stream_tasks = [t \in StreamIds |-> "free"]
    /\ follow_tasks = [f \in FollowIds |-> [pc |-> "free", cancel |-> FALSE, i |-> 0, wait |-> 0]]
    /\ exec = NoCall
    /\ \E n \in {AnyFaults, AtMostFaults(MaxFaults), AtMostFaults(0)} :
          vehicle = [setpoint |-> NoSetpoint, offboard |-> FALSE, primed |-> 0,
                     faults |-> n]

\* The executor under any sequence of execute_command calls, each made after
\* the previous one returned, on a connected or an unconnected interface
ExecInit ==
    /\ ArbInit
    /\ ExecutorInit
    /\ MainInitLocals
    /\ is_connected \in BOOLEAN
    /\ vehicle.faults = AnyFaults

ExecNext ==
    \/ \E c \in ExecCommands : Call(c)
    \/ ExecJoinFollow
    \/ ExecJoinStop
    \/ ExecSettled
    \/ ExecArm
    \/ ExecTakeoff
    \/ ExecLand
    \/ ExecLandDisarm
    \/ ExecDisarm
    \/ ExecReadForOffboard
    \/ ExecJoinOld
    \/ ExecPrimeSend
    \/ ExecPrimeSleep
    \/ ExecStreamSettled
    \/ ExecOffboardStart
    \/ ExecGotoSettled
    \/ ExecFollowSettled
    \/ ExecReadDoNothing
    \/ ExecOffboardStop
    \/ \E t \in StreamIds : StreamSend(t)
    \/ \E t \in StreamIds : StreamFail(t)
    \/ \E t \in StreamIds : StreamCancelled(t)
    \/ \E f \in FollowIds : FollowStart(f)
    \/ \E f \in FollowIds : FollowRead(f)
    \/ \E f \in FollowIds : FollowSlept(f)
    \/ \E f \in FollowIds : FollowJoinOld(f)
    \/ \E f \in FollowIds : FollowPrimeSend(f)
    \/ \E f \in FollowIds : FollowPrimeSleep(f)
    \/ \E f \in FollowIds : FollowCancelled(f)

SpecExec == ExecInit /\ [][ExecNext]_vars

\* The event loop runs every coroutine that can go on: the execute_command
\* call in progress, each stream task and each follow task.  Every vehicle
\* call returns; none has to fail, and no further command has to come.
ExecSteps ==
    \/ ExecJoinFollow \/ ExecJoinStop \/ ExecSettled \/ ExecArm \/ ExecTakeoff
    \/ ExecLand \/ ExecLandDisarm \/ ExecDisarm \/ ExecReadForOffboard
    \/ ExecJoinOld \/ ExecPrimeSend \/ ExecPrimeSleep \/ ExecStreamSettled
    \/ ExecOffboardStart \/ ExecGotoSettled \/ ExecFollowSettled
    \/ ExecReadDoNothing \/ ExecOffboardStop
StreamSteps(t) == StreamSend(t) \/ StreamCancelled(t)
FollowSteps(f) ==
    \/ FollowStart(f) \/ FollowRead(f) \/ FollowSlept(f) \/ FollowJoinOld(f)
    \/ FollowPrimeSend(f) \/ FollowPrimeSleep(f) \/ FollowCancelled(f)

SpecExecFair ==
    /\ ExecInit
    /\ [][ExecNext]_vars
    /\ WF_vars(ExecSteps)
    /\ \A t \in StreamIds : WF_vars(StreamSteps(t))
    /\ \A f \in FollowIds : WF_vars(FollowSteps(f))

\* The arbitrator alone, its methods called in any order
ArbOnlyInit ==
    /\ ArbInit
    /\ ExecutorInit
    /\ MainInitLocals
    /\ is_connected = FALSE
    /\ vehicle.faults = AnyFaults

ArbOnlyNext ==
    \/ \E c \in HumanCommands : set_human_command(c) /\ UNCHANGED <<execVars, mainVars>>
    \/ release_human_control /\ UNCHANGED <<execVars, mainVars>>
    \/ \E b \in BOOLEAN : set_human_control_active(b) /\ UNCHANGED <<execVars, mainVars>>
    \/ \E p \in ProposedCommands : arbitrate_command(p) /\ UNCHANGED <<execVars, mainVars>>

SpecArb == ArbOnlyInit /\ [][ArbOnlyNext]_vars

\* main() after a successful connect, line 122
MainInit ==
    /\ ArbInit
    /\ ExecutorInit
    /\ MainInitLocals
    /\ is_connected = TRUE
    /\ vehicle.faults = AtMostFaults(MaxFaults)

MainNext ==
    \/ \E c \in HumanInputs : HumanTypes(c)
    \/ MainWake
    \/ MainAfterHumanFlight
    \/ MainAfterStopFollow
    \/ MainPerceive
    \/ MainLLMAnswer
    \/ MainAfterArbitrated
    \/ MainAfterEmergencyLand
    \/ MainCleanupJoined
    \/ ExecJoinFollow
    \/ ExecJoinStop
    \/ ExecSettled
    \/ ExecArm
    \/ ExecTakeoff
    \/ ExecLand
    \/ ExecLandDisarm
    \/ ExecDisarm
    \/ ExecReadForOffboard
    \/ ExecJoinOld
    \/ ExecPrimeSend
    \/ ExecPrimeSleep
    \/ ExecStreamSettled
    \/ ExecOffboardStart
    \/ ExecGotoSettled
    \/ ExecFollowSettled
    \/ ExecReadDoNothing
    \/ ExecOffboardStop
    \/ \E t \in StreamIds : StreamSend(t)
    \/ \E t \in StreamIds : StreamFail(t)
    \/ \E t \in StreamIds : StreamCancelled(t)
    \/ \E f \in FollowIds : FollowStart(f)
    \/ \E f \in FollowIds : FollowRead(f)
    \/ \E f \in FollowIds : FollowSlept(f)
    \/ \E f \in FollowIds : FollowJoinOld(f)
    \/ \E f \in FollowIds : FollowPrimeSend(f)
    \/ \E f \in FollowIds : FollowPrimeSleep(f)
    \/ \E f \in FollowIds : FollowCancelled(f)

SpecMain == MainInit /\ [][MainNext]_vars

\* Bound on the lines typed ahead of the control loop
MaxTypedAhead == 2

\* The control loop on a vehicle link that never fails, with the human
\* typing up to MaxTypedAhead lines ahead of the loop
HumanTypesAhead(c) == Enqueue(c, MaxTypedAhead)

QueueInit ==
    /\ ArbInit
    /\ ExecutorInit
    /\ MainInitLocals
    /\ is_connected = TRUE
    /\ vehicle.faults = AtMostFaults(0)

QueueNext ==
    \/ \E c \in HumanInputs : HumanTypesAhead(c)
    \/ MainWake
    \/ MainAfterHumanFlight
    \/ MainAfterStopFollow
    \/ MainPerceive
    \/ MainLLMAnswer
    \/ MainAfterArbitrated
    \/ MainAfterEmergencyLand
    \/ MainCleanupJoined
    \/ ExecJoinFollow
    \/ ExecJoinStop
    \/ ExecSettled
    \/ ExecArm
    \/ ExecTakeoff
    \/ ExecLand
    \/ ExecLandDisarm
    \/ ExecDisarm
    \/ ExecReadForOffboard
    \/ ExecJoinOld
    \/ ExecPrimeSend
    \/ ExecPrimeSleep
    \/ ExecStreamSettled
    \/ ExecOffboardStart
    \/ ExecGotoSettled
    \/ ExecFollowSettled
    \/ \E t \in StreamIds : StreamSend(t)
    \/ \E t \in StreamIds : StreamCancelled(t)
    \/ \E f \in FollowIds : FollowStart(f)
    \/ \E f \in FollowIds : FollowRead(f)
    \/ \E f \in FollowIds : FollowSlept(f)
    \/ \E f \in FollowIds : FollowJoinOld(f)
    \/ \E f \in FollowIds : FollowPrimeSend(f)
    \/ \E f \in FollowIds : FollowPrimeSleep(f)
    \/ \E f \in FollowIds : FollowCancelled(f)

SpecQueue == QueueInit /\ [][QueueNext]_vars

\* The state store and the camera processor under any calls of their
\* methods, with a caller that keeps the dict get_current_state returned
StoreCommands == {Cmd("takeoff", [altitude_m |-> 10], "any"), DoNothingHold}

StoreSet ==
    /\ \E ds \in {update_telemetry(drone_state, Telemetry(b, m)) :
                       b \in BatteryReads, m \in FlightModes}
               \cup {update_visual_insights(drone_state, CameraInsights)}
               \cup {set_last_executed_command(drone_state, c) : c \in StoreCommands}
               \cup {set_human_control_status(drone_state, a) : a \in BOOLEAN}
               \cup {set_llm_following_status(drone_state, a) : a \in BOOLEAN}
               \cup {update_flight_mode(drone_state, m) : m \in FlightModes} :
          drone_state' = ds
    /\ UNCHANGED <<arbVars, execVars, human_command_queue, human_input_task, ctl,
                   detected, camera_insights, snapshot, latest_battery>>

StoreGet ==
    /\ snapshot' = get_current_state(drone_state)
    /\ UNCHANGED <<arbVars, execVars, human_command_queue, human_input_task, ctl,
                   detected, camera_insights, latest_battery, drone_state>>

CameraFeed ==
    /\ process_camera_feed
    /\ UNCHANGED <<arbVars, execVars, human_command_queue, human_input_task, ctl,
                   snapshot, latest_battery, drone_state>>

CameraSimulate ==
    /\ simulate_detection
    /\ UNCHANGED <<arbVars, execVars, human_command_queue, human_input_task, ctl,
                   snapshot, latest_battery, drone_state>>

CameraClear ==
    /\ clear_detections
    /\ UNCHANGED <<arbVars, execVars, human_command_queue, human_input_task, ctl,
                   snapshot, latest_battery, drone_state>>

StoreInit ==
    /\ ArbInit
    /\ ExecutorInit
    /\ MainInitLocals
    /\ is_connected = TRUE
    /\ vehicle.faults = AtMostFaults(0)

StoreNext ==
    \/ StoreSet
    \/ StoreGet
    \/ CameraFeed
    \/ CameraSimulate
    \/ CameraClear

SpecStore == StoreInit /\ [][StoreNext]_vars

(***************************************************************************)
(* Properties of the arbitrator                                            *)
(***************************************************************************)

\* The calls that leave a human-held, empty channel as it is
KeepsIdleHold == {"arbitrate", "set_active_true"}

\* C4: arbitrate is total: in every arbitration state and for every proposed
\* command the call is possible at once (it has no precondition and no
\* suspension point) and returns exactly one command, never None.
C4_ArbitrateTotal ==
    /\ \A p \in ProposedCommands :
          /\ ENABLED arbitrate_command(p)
          /\ ArbitrateResult(human_control_active, human_command, p).ret
                \in AllCommands
    /\ (arb_last.op = "arbitrate" => arb_last.ret \in AllCommands)

C4_Witness ==
    /\ arb_last.op = "arbitrate"
    /\ ~arb_last.was_active
    /\ Truthy(arb_last.was_pending)
    /\ arb_last.ret \in ProposedCommands

\* C5 as stated: arbitrate with human control active and a pending command c
\* returns c, and any later arbitrate call returns do_nothing provided only
\* that set_human_command was not called in between.
C5_Original ==
    /\ (arb_last.op = "arbitrate" /\ arb_last.was_active /\ Truthy(arb_last.was_pending)
          => arb_last.ret = arb_last.was_pending)
    /\ (arb_last.op = "arbitrate"
         /\ arb_last.was_since["consume"] # NoEvent
         /\ "set_human_command" \notin arb_last.was_since["consume"]
          => arb_last.ret = DoNothingHold)

\* C5 amended: arbitrate with human control active and a pending command c
\* returns c and empties the slot, and any later arbitrate call returns
\* do_nothing provided that neither set_human_command nor release nor
\* set_human_control_active(False) was called in between.
C5_ConsumeOnce ==
    /\ (arb_last.op = "arbitrate" /\ arb_last.was_active /\ Truthy(arb_last.was_pending)
          => arb_last.ret = arb_last.was_pending /\ human_command = None)
    /\ (arb_last.op = "arbitrate"
         /\ arb_last.was_since["consume"] # NoEvent
         /\ arb_last.was_since["consume"] \subseteq KeepsIdleHold
          => arb_last.ret = DoNothingHold)

C5_Witness ==
    /\ arb_last.op = "arbitrate"
    /\ arb_last.was_since["consume"] = {}
    /\ arb_last.ret = DoNothingHold

\* C6: idle hold: with human control active and nothing pending, arbitrate
\* returns do_nothing for every proposed command and changes neither
\* human_control_active nor the pending slot.
C6_IdleHold ==
    /\ (human_control_active /\ human_command = None
          => \A p \in ProposedCommands :
                ArbitrateResult(human_control_active, human_command, p)
                    = [ret |-> DoNothingHold, pending |-> None])
    /\ (arb_last.op = "arbitrate" /\ arb_last.was_active /\ arb_last.was_pending = None
          => /\ arb_last.ret = DoNothingHold
             /\ human_control_active
             /\ human_command = None)

C6_Witness ==
    /\ arb_last.op = "arbitrate"
    /\ arb_last.was_active
    /\ arb_last.was_pending = None
    /\ arb_last.arg.action = "follow_target"
    /\ human_control_active

\* C7: with human control not active, arbitrate(cmd) returns cmd itself, and
\* the call changes neither human_control_active nor the pending command.
C7_AutonomousPassThrough ==
    arb_last.op = "arbitrate" /\ ~arb_last.was_active
        => /\ arb_last.ret = arb_last.arg
           /\ ~human_control_active
           /\ human_command = arb_last.was_pending

C7_Witness ==
    /\ arb_last.op = "arbitrate"
    /\ ~arb_last.was_active
    /\ arb_last.arg.action = "land"
    /\ arb_last.ret = arb_last.arg

\* C8: whenever human control is not active, no human command is pending.
C8_NoPendingWhenAutonomous ==
    ~human_control_active => human_command = None

\* C9 as stated: set_human_control_active(True) leaves nothing pending, and
\* any later arbitrate call returns do_nothing provided only that
\* set_human_command was not called in between.
C9_Original ==
    /\ (arb_last.op = "set_active_true" => human_command = None)
    /\ (arb_last.op = "arbitrate"
         /\ arb_last.was_since["takeback"] # NoEvent
         /\ "set_human_command" \notin arb_last.was_since["takeback"]
          => arb_last.ret = DoNothingHold)

\* C9 amended: set_human_control_active(True) leaves nothing pending, whether
\* or not human control was active before, and any later arbitrate call
\* returns do_nothing provided that neither set_human_command nor release
\* nor set_human_control_active(False) was called in between.
C9_TakeBackClears ==
    /\ (arb_last.op = "set_active_true" => human_command = None /\ human_control_active)
    /\ (arb_last.op = "arbitrate"
         /\ arb_last.was_since["takeback"] # NoEvent
         /\ arb_last.was_since["takeback"] \subseteq KeepsIdleHold
          => arb_last.ret = DoNothingHold)

C9_Witness ==
    /\ arb_last.op = "set_active_true"
    /\ arb_last.was_active
    /\ Truthy(arb_last.was_pending)
    /\ human_command = None

(***************************************************************************)
(* Properties of the executor                                              *)
(***************************************************************************)
\* C1: at every instant at most one setpoint stream task and at most one
\* follow task is live, a cancelled task counting as live until it has
\* terminated; so a new stream task is only created once the cancelled one
\* has terminated.
C1_SingleTasks ==
    /\ Cardinality(LiveStreams(W)) <= 1
    /\ Cardinality(LiveFollows(W)) <= 1

\* The follow loop restarted the stream and sleeps: one stream task is live
\* again, transmitting the desired follow position
C1_Witness ==
    /\ \E f \in FollowIds : follow_tasks[f].pc = "L239"
    /\ Cardinality(LiveStreams(W)) = 1
    /\ target_info # NoTarget
    /\ current_offboard_setpoint = Desired(W)
    /\ vehicle.setpoint = Desired(W)

\* C3: whenever no execute_command call is in progress, _offboard_active is
\* true if and only if a stream task is live and the vehicle has been
\* commanded into offboard mode.
C3_OffboardFlagExact ==
    exec.pc = "idle"
        => (offboard_active <=> (LiveStreams(W) # {} /\ vehicle.offboard))

\* C10: execute_command returns True or False and never raises, and it
\* returns False whenever a vehicle call it made during the transition
\* failed.
C10_FalseOnFailure ==
    exec.pc = "idle" /\ exec.command # None
        => /\ exec.ret \in {"True", "False"}
           /\ (exec.failed # {} => exec.ret = "False")

(***************************************************************************)
(* Properties of the control loop                                          *)
(***************************************************************************)
\* The lines of main() that await execute_command
ExecuteSites == {"L167", "L187", "L272", "L284"}

\* C2: in the control loop, whenever a command proposed by the autonomous
\* decision source has been passed to execute_command, human control is not
\* active.
C2_AuthorityExclusive ==
    ctl.pc \in ExecuteSites /\ exec.command.reason \in AutonomousReasons
        => ~human_control_active

C2_Witness ==
    /\ ctl.pc = "L272"
    /\ exec.pc # "idle"
    /\ exec.command \in LLMProposals
    /\ exec.command.action = "follow_target"
    /\ arb_last.op = "arbitrate"
    /\ arb_last.ret = exec.command
    /\ ~human_control_active

\* C11: in the control loop last_executed_command is set to a command only
\* when the execute_command call of that command has returned True: a step
\* that changes it follows a call that returned True, and stores the
\* command of that call.
C11_SetOnlyOnSuccess ==
    [][drone_state'.last_executed_command # drone_state.last_executed_command
          => /\ exec.pc = "idle"
             /\ exec.ret = "True"
             /\ drone_state'.last_executed_command = exec.command]_vars

(***************************************************************************)
(* Properties of single execute_command calls.  A step of the call itself  *)
(* is a step that changes its frame, exec; the steps of the stream task    *)
(* and of the follow task leave exec alone.                                *)
(***************************************************************************)
\* goto_location commands with one of north_m, east_m, altitude_m missing
GotoMissing ==
    {c \in ExecCommands :
        /\ ActionOf(c) = "goto_location"
        /\ \E k \in {"north_m", "east_m", "altitude_m"} : ~Has(ParamsOf(c), k)}

\* The stream task, its handle and the setpoint it transmits are untouched
StreamUntouched ==
    /\ LiveStreams(W)' = LiveStreams(W)
    /\ \A t \in LiveStreams(W) : stream_tasks'[t] = stream_tasks[t]
    /\ offboard_setpoint_task' = offboard_setpoint_task
    /\ current_offboard_setpoint' = current_offboard_setpoint

\* C12: execute_command(goto_location) with north_m, east_m or altitude_m
\* missing returns False, and no step of the call creates a stream task or
\* cancels, restarts or re-targets an existing one.
C12_GotoMissingNoStream ==
    [][exec' # exec /\ exec'.command \in GotoMissing
          => /\ StreamUntouched
             /\ (exec'.pc = "idle" => exec'.ret = "False")]_vars

\* Such a call has returned on a connected vehicle whose stream is running
C12_Witness ==
    /\ exec.pc = "idle"
    /\ exec.command = Cmd("goto_location", NoParams, "any")
    /\ exec.ret = "False"
    /\ is_connected
    /\ offboard_active
    /\ offboard_setpoint_task # 0
    /\ stream_tasks[offboard_setpoint_task] = "live"

\* C13: execute_command(goto_location) with a required parameter missing is
\* rejected before any side effect: no step of the call changes the
\* executor's state; a follow task that is live stays as it is, and so do
\* its handle and its cached target.
C13_GotoMissingNoEffect ==
    [][exec' # exec /\ exec'.command \in GotoMissing
          => /\ StreamUntouched
             /\ \A f \in LiveFollows(W) : follow_tasks'[f] = follow_tasks[f]
             /\ follow_task' = follow_task
             /\ target_info' = target_info
             /\ offboard_active' = offboard_active]_vars

\* C14: while no target is detected (the state store holds no target
\* track), execute_command(follow_target) returns False whatever its
\* parameters, without priming, without requesting the mode switch and
\* without starting a follow task.
C14_NoTrackNoFollow ==
    ActionOf(exec.command) = "follow_target" /\ ~detected
        => /\ exec.pc = "idle" => exec.ret = "False"
           /\ exec.pc \notin {"L64", "L65", "L125"}
           /\ exec.calls = <<>>
           /\ (exec.pc # "idle" => LiveFollows(W) = {})

\* The executor is offboard-streaming with a live stream task
Streaming ==
    /\ offboard_active
    /\ offboard_setpoint_task # 0
    /\ stream_tasks[offboard_setpoint_task] = "live"

\* C15: execute_command(do_nothing), called any number of times while the
\* executor is offboard-streaming with a live stream task, creates no stream
\* task and leaves the live task and the current setpoint as they are.
C15_DoNothingIdempotent ==
    [][exec' # exec /\ ActionOf(exec'.command) = "do_nothing" /\ Streaming
          => StreamUntouched /\ Streaming']_vars

\* do_nothing has returned True and the stream it found, started by a
\* goto_location, is still running towards the same setpoint
C15_Witness ==
    /\ exec.pc = "idle"
    /\ ActionOf(exec.command) = "do_nothing"
    /\ exec.ret = "True"
    /\ Streaming
    /\ vehicle.offboard
    /\ current_offboard_setpoint = GotoSetpoint(GotoParams)

\* C16: whenever the offboard mode switch is requested (offboard.start() is
\* being called, line 125), the vehicle has received the priming count of
\* setpoint transmissions since the executor last was not streaming.
C16_PrimedBeforeSwitch ==
    exec.pc = "L125" => vehicle.primed = PrimingCount

\* The mode switch is requested for a goto_location, after priming with the
\* position that was read
C16_Witness ==
    /\ exec.pc = "L125"
    /\ ActionOf(exec.command) = "goto_location"
    /\ exec.calls = <<"offboard_start">>
    /\ vehicle.primed = PrimingCount
    /\ vehicle.setpoint = PositionNedYaw(3, 4, -5, 0)
    /\ ~vehicle.offboard

\* C17: when execute_command has returned from a goto_location or a
\* follow_target whose offboard.start() raised, it has returned False, the
\* stream started for the entry has been stopped and has terminated,
\* _offboard_active is False and no follow task has been started.
C17_SwitchFailureCleansUp ==
    exec.pc = "idle" /\ "offboard_start" \in exec.failed
        => /\ exec.ret = "False"
           /\ LiveStreams(W) = {}
           /\ offboard_setpoint_task = 0
           /\ ~offboard_active
           /\ LiveFollows(W) = {}
           /\ follow_task = 0

\* A follow_target has failed at the mode switch, after its target was cached
C17_Witness ==
    /\ exec.pc = "idle"
    /\ ActionOf(exec.command) = "follow_target"
    /\ exec.failed = {"offboard_start"}
    /\ exec.ret = "False"
    /\ target_info # NoTarget
    /\ vehicle.setpoint # NoSetpoint
    /\ ~vehicle.offboard

(***************************************************************************)
(* Properties of the control loop's calls                                  *)
(***************************************************************************)
\* C18: no two execute_command calls are in progress at the same time: the
\* control loop starts a call only when no call is in progress, and takes no
\* step of its own while one is; the steps taken meanwhile are those of the
\* call, of the stream task, of the follow task and of the input task.
C18_CallsSequential ==
    [][/\ (ctl' # ctl /\ ctl'.pc \in ExecuteSites => exec.pc = "idle")
       /\ (exec.pc # "idle" => ctl' = ctl)]_vars

\* The emergency land is in progress in the cycle in which the arbitrated
\* follow_target returned True, while the stream task is live
C18_Witness ==
    /\ ctl.pc = "L284"
    /\ exec.pc # "idle"
    /\ exec.command = EmergencyLand
    /\ ActionOf(drone_state.last_executed_command) = "follow_target"
    /\ LiveStreams(W) # {}

(***************************************************************************)
(* Properties of the writers of the current setpoint                       *)
(***************************************************************************)
\* execute_command is inside _start_offboard_setpoint_stream
ExecStartsStream == exec.pc \in {"L55", "L64", "L65"}

\* C19: _current_offboard_setpoint never has two concurrent writers: while
\* an execute_command call writes it or (re)starts the stream, no follow
\* task is live; and a step that changes it is a step of execute_command or
\* of the follow task, never of the stream task.
C19_SingleWriter ==
    [][/\ (ExecStartsStream => LiveFollows(W) = {})
       /\ (exec' # exec /\ current_offboard_setpoint' # current_offboard_setpoint
             => LiveFollows(W) = {})
       /\ (current_offboard_setpoint' # current_offboard_setpoint
             => \/ exec' # exec
                \/ \E f \in LiveFollows(W) : follow_tasks'[f] # follow_tasks[f])]_vars

\* A goto_location primes its stream after a follow_target had set the
\* follow parameters: the follow task is gone and its target forgotten
C19_Witness ==
    /\ exec.pc = "L64"
    /\ exec.ctx = "goto"
    /\ current_offboard_setpoint = GotoSetpoint(GotoParams)
    /\ follow_distance_m = FollowParams.follow_distance_m
    /\ vehicle.offboard
    /\ target_info = NoTarget
    /\ follow_task = 0
    /\ LiveFollows(W) = {}

(***************************************************************************)
(* Properties of the actions that leave offboard control                   *)
(***************************************************************************)
\* C20: when execute_command has returned from takeoff, land or disarm, no
\* stream task is live and _offboard_active is False.
C20_BackToNonOffboard ==
    exec.pc = "idle" /\ ActionOf(exec.command) \in {"takeoff", "land", "disarm"}
        => /\ LiveStreams(W) = {}
           /\ ~offboard_active

(***************************************************************************)
(* Properties of the human command queue                                   *)
(***************************************************************************)

\* What the control loop does with human command h in the step that takes
\* it from the queue (main_controller.py:158-217)
HandledNow(h) ==
    /\ ctl.pc = "L294"
    /\ CASE h.action = "exit" -> ctl'.mission_finished
         [] h.action \in {"land", "disarm", "takeoff", "goto_location"} ->
                /\ ctl'.pc = "L167"
                /\ exec'.command = h
         [] h.action = "release" -> arb_last'.op = "release"
         [] h.action = "stop_follow" -> exec'.command = StopFollowCommand
         [] h.action = "simulate_person" -> detected'
         [] h.action = "clear_detection" -> ~detected'
         [] OTHER -> FALSE

\* C21: the human commands are handled in the order in which they were
\* queued: the queue changes only by a command joining at its tail or by its
\* oldest command leaving, and the command that leaves is the one the
\* control loop handles in that step, so none is skipped or handled twice.
C21_QueueOrder ==
    [][human_command_queue' # human_command_queue
          => \/ \E c \in HumanInputs :
                   human_command_queue' = human_command_queue \o <<c>>
             \/ /\ human_command_queue # <<>>
                /\ human_command_queue' = SubSeq(human_command_queue, 2, Len(human_command_queue))
                /\ HandledNow(human_command_queue[1])]_vars

\* A takeoff typed before a land is being executed while the land still waits
C21_Witness ==
    /\ ctl.pc = "L167"
    /\ ActionOf(exec.command) = "takeoff"
    /\ Len(human_command_queue) = 1
    /\ human_command_queue[1].action = "land"

(***************************************************************************)
(* Properties of the takeoff and land branches                             *)
(***************************************************************************)

\* C22: a takeoff command whose altitude parameter is zero or negative
\* returns False and the takeoff is never commanded on the vehicle.
C22_BadAltitudeRejected ==
    /\ ActionOf(exec.command) = "takeoff"
    /\ Has(ParamsOf(exec.command), "altitude_m")
    /\ ParamsOf(exec.command).altitude_m <= 0
    => /\ "takeoff" \notin {exec.calls[i] : i \in DOMAIN exec.calls}
       /\ (exec.pc = "idle" => exec.ret = "False")

\* C23: within a land command the disarm is commanded only after the land
\* call succeeded, and the command returns False when the land call failed
\* and also when the land call succeeded but the disarm call failed.
C23_LandFailuresSurface ==
    ActionOf(exec.command) = "land"
    => /\ (exec.pc = "L293" => exec.calls = <<"land", "disarm">> /\ "land" \notin exec.failed)
       /\ (exec.pc = "idle" /\ exec.failed # {} => exec.ret = "False")

\* C27: within a takeoff command the arm call comes before the takeoff call;
\* when the vehicle link is not connected or the arm call fails, takeoff is
\* never commanded and the command returns False.
C27_ArmBeforeTakeoff ==
    ActionOf(exec.command) = "takeoff"
    => /\ ("takeoff" \in {exec.calls[i] : i \in DOMAIN exec.calls}
            => exec.calls = <<"arm", "takeoff">>)
       /\ (~is_connected \/ "arm" \in exec.failed
            => /\ "takeoff" \notin {exec.calls[i] : i \in DOMAIN exec.calls}
               /\ (exec.pc = "idle" => exec.ret = "False"))

\* A takeoff command returned False after its arm call failed
C27_Witness ==
    /\ exec.pc = "idle"
    /\ ActionOf(exec.command) = "takeoff"
    /\ is_connected
    /\ exec.calls = <<"arm">>
    /\ "arm" \in exec.failed
    /\ exec.ret = "False"

(***************************************************************************)
(* Properties of the state store                                           *)
(***************************************************************************)

\* The fields of ds other than field k are the same in ds2
OnlyField(ds, ds2, k) ==
    /\ DOMAIN ds2 = DOMAIN ds
    /\ \A j \in DOMAIN ds \ {k} : ds2[j] = ds[j]

\* C24: each setter of the state store puts its argument in its own field
\* and leaves every other field of DroneState as it was.
C24_SettersOwnField ==
    /\ \A b \in BatteryReads, m \in FlightModes :
          LET ds2 == update_telemetry(drone_state, Telemetry(b, m))
          IN  OnlyField(drone_state, ds2, "telemetry") /\ ds2.telemetry = Telemetry(b, m)
    /\ \A v \in {OwnInsights, CameraInsights} :
          LET ds2 == update_visual_insights(drone_state, v)
          IN  OnlyField(drone_state, ds2, "visual_insights") /\ ds2.visual_insights = v
    /\ \A c \in StoreCommands :
          LET ds2 == set_last_executed_command(drone_state, c)
          IN  OnlyField(drone_state, ds2, "last_executed_command")
              /\ ds2.last_executed_command = c
    /\ \A a \in BOOLEAN :
          LET ds2 == set_human_control_status(drone_state, a)
          IN  OnlyField(drone_state, ds2, "human_control_active")
              /\ ds2.human_control_active = a
    /\ \A a \in BOOLEAN :
          LET ds2 == set_llm_following_status(drone_state, a)
          IN  OnlyField(drone_state, ds2, "llm_following") /\ ds2.llm_following = a
    /\ \A m \in FlightModes :
          LET ds2 == update_flight_mode(drone_state, m)
          IN  OnlyField(drone_state, ds2, "current_flight_mode")
              /\ ds2.current_flight_mode = m

\* Every setter has acted: no field has the value it was constructed with
C24_Witness ==
    /\ drone_state.telemetry = Telemetry(10, "OFFBOARD")
    /\ drone_state.visual_insights = CameraInsights
    /\ drone_state.current_flight_mode = "HOLD"
    /\ drone_state.last_executed_command = DoNothingHold
    /\ ~drone_state.human_control_active
    /\ drone_state.llm_following

\* What DroneState and a held snapshot show now
Shown(d) == [d EXCEPT !.visual_insights = Deref(@)]

\* C25: the state store is the single writer of DroneState: what DroneState
\* shows, and what a dict returned earlier by get_current_state shows,
\* changes only in a step in which a setter of the store assigns a field
\* (for the dict: never after it was returned).
C25_SingleWriterOfState ==
    [][/\ (drone_state' = drone_state => Shown(drone_state)' = Shown(drone_state))
       /\ (snapshot' = snapshot /\ snapshot # NoSnapshot
             => Shown(snapshot)' = Shown(snapshot))]_vars

(***************************************************************************)
(* Properties of the pursuit                                               *)
(***************************************************************************)

\* Follow task f ends in this step
FollowEnds(f) ==
    /\ follow_tasks[f].pc \notin {"free", "done"}
    /\ follow_tasks'[f].pc \in {"free", "done"}

\* C29 as stated: whenever a follow task ends, by cancellation, by an error
\* or because the target is lost, the cached target is cleared and the
\* follow task handle is empty.
C29_Original ==
    [][\A f \in FollowIds :
          FollowEnds(f) => target_info' = NoTarget /\ follow_task' = 0]_vars

\* C29: whenever a follow task that has begun its loop ends, by
\* cancellation, by an error or because the target is lost, the cached
\* target is cleared and the follow task handle is empty; a task cancelled
\* before its first step ends with both still set, and the execute_command
\* call that cancelled it clears them when it goes on; a follow task never
\* takes its first step without a cached target.
C29_FollowEndClears ==
    [][/\ \A f \in FollowIds :
            FollowEnds(f) /\ follow_tasks[f].pc # "new"
               => target_info' = NoTarget /\ follow_task' = 0
       /\ \A f \in FollowIds :
            FollowEnds(f) /\ follow_tasks[f].pc = "new"
               => exec.pc = "L266" /\ follow_task = f
       /\ (exec.pc = "L266" /\ exec'.pc # "L266"
               => target_info' = NoTarget /\ follow_task' = 0)
       /\ \A f \in FollowIds :
            follow_tasks[f].pc = "new" /\ follow_tasks'[f].pc \notin {"new", "done", "free"}
               => target_info # NoTarget]_vars

\* A follow_target command returned True and no call was made since, and
\* the follow task it left running has ended by itself
C29_Witness ==
    /\ exec.pc = "idle"
    /\ ActionOf(exec.command) = "follow_target"
    /\ exec.ret = "True"
    /\ LiveFollows(W) = {}
    /\ follow_task = 0
    /\ target_info = NoTarget

\* The follow_target commands that carry all five required parameters
FollowValid ==
    {c \in ExecCommands :
        /\ ActionOf(c) = "follow_target"
        /\ \A k \in {"target_north_m", "target_east_m", "target_down_m",
                      "follow_distance_m", "follow_altitude_m"} : Has(ParamsOf(c), k)}

\* C26: a follow_target command with valid parameters that finds a follow
\* task live leaves that task running, creates no second one, does not
\* restart the stream and returns True; a follow task is created only when
\* none is live.
C26_FollowLeftRunning ==
    [][/\ (/\ exec' # exec
           /\ exec'.command \in FollowValid
           /\ LiveFollows(W) # {}
           => /\ LiveFollows(W)' = LiveFollows(W)
              /\ \A f \in LiveFollows(W) : follow_tasks'[f] = follow_tasks[f]
              /\ follow_task' = follow_task
              /\ StreamUntouched
              /\ (exec'.pc = "idle" => exec'.ret = "True"))
       /\ \A f \in FollowIds :
             follow_tasks[f].pc # "new" /\ follow_tasks'[f].pc = "new"
                => LiveFollows(W) = {}]_vars

\* A follow_target command for a target at the origin returned True while
\* the follow task, started for the target at (3, 4), is still priming the
\* stream it restarted towards that earlier target
C26_Witness ==
    /\ exec.pc = "idle"
    /\ exec.command = Cmd("follow_target", FollowParamsNear, "any")
    /\ exec.ret = "True"
    /\ target_info.north_m = 0
    /\ follow_task # 0
    /\ follow_tasks[follow_task].pc \in {"L64", "L65"}
    /\ current_offboard_setpoint = PositionNedYaw(3, 4, -5, 0)

\* C28: in a cycle of the follow loop that has a target and a position: when
\* the horizontal distance to the desired point exceeds the follow distance
\* the stream is restarted towards the desired point; otherwise the current
\* setpoint becomes the desired point and the stream task is not restarted.
C28_CycleRepositionsOrAdjusts ==
    [][\A f \in FollowIds :
          follow_tasks[f].pc = "L174" /\ target_info # NoTarget
          => /\ (follow_tasks'[f].pc \in {"L55", "L64"}
                   => current_offboard_setpoint' = Desired(W))
             /\ (follow_tasks'[f].pc = "L239"
                   => /\ current_offboard_setpoint' = Desired(W)
                      /\ offboard_setpoint_task' = offboard_setpoint_task
                      /\ stream_tasks' = stream_tasks)]_vars

(***************************************************************************)
(* Properties of do_nothing                                                *)
(***************************************************************************)

\* The executor believes it streams and no stream task is live at its handle
NeedsHeal ==
    /\ offboard_active
    /\ (offboard_setpoint_task = 0 \/ stream_tasks[offboard_setpoint_task] = "done")

\* The executor's fields, the frame of the call apart
ExecutorFields ==
    <<offboard_setpoint_task, offboard_active, current_offboard_setpoint, target_info,
      follow_distance_m, follow_altitude_m, follow_task, stream_tasks, follow_tasks>>

\* C30: a do_nothing command called while the executor believes
\* it streams and no stream task is live returns with a stream task live;
\* called in any other state it changes no field of the executor.
C30_SelfHealingHold ==
    [][exec' # exec /\ ActionOf(exec'.command) = "do_nothing"
          => /\ (exec.pc \in {"L377", "L55", "L64", "L65", "L148"} /\ exec'.pc = "idle"
                   => Streaming')
             /\ (exec.pc = "idle" /\ ~NeedsHeal => ExecutorFields' = ExecutorFields)]_vars

(***************************************************************************)
(* Termination of execute_command                                          *)
(***************************************************************************)

\* C31: every execute_command call eventually returns, when every vehicle
\* call returns and the event loop runs every task that can go on.
C31_ExecuteReturns == (exec.pc # "idle") ~> (exec.pc = "idle")

\* ---------------------------------------------------------------------------
\* When the LLM is asked for a decision
\* ---------------------------------------------------------------------------

\* main_controller.py:236, the control loop awaits get_action_from_llm
LLMInvoked == ctl.pc = "L236"

C39_StopsOnlyOnExit ==
    ctl.mission_finished => human_input_task = "ended"

(***************************************************************************)
(* Battery escalation                                                      *)
(***************************************************************************)

\* A control cycle ends: main() reaches the sleep of line 294
CycleEnds == ctl.pc # "L294" /\ ctl'.pc = "L294"

\* The telemetry of the cycle reports a critical battery
CriticalCycle == is_battery_critical(latest_battery', CRITICAL_BATTERY_PERCENTAGE)

\* A cycle that ends with a critical battery ends on the return of the
\* emergency land, with control handed to the human
EscalatedAtEnd ==
    CycleEnds /\ CriticalCycle
       => /\ ctl.pc = "L284"
          /\ exec.command = EmergencyLand
          /\ human_control_active'
          /\ human_command' = None
          /\ ~ctl'.llm_is_currently_following

\* A cycle that read a critical battery is not left without the land
NotAbandoned ==
    ctl.pc = "L208" /\ ctl'.pc # "L208" /\ CriticalCycle => ~ctl'.mission_finished

\* C33: in every cycle whose telemetry reports a critical battery the loop
\* executes a land in that cycle, and at the end of the cycle the human holds
\* control, no human command is pending and following is marked inactive
C33_BatteryEscalation == [][EscalatedAtEnd /\ NotAbandoned]_vars

(***************************************************************************)
(* Authority returned to the human                                         *)
(***************************************************************************)

\* C34: at the end of every control cycle in which the human holds control
\* no follow task is live
C34_NoPursuitUnderHumanControl ==
    [][CycleEnds /\ human_control_active' => LiveFollows(W)' = {}]_vars

\* The LLM, holding authority, answers land or disarm: lines 250-255 are the
\* only ones after line 236 that clear llm_should_be_active
LLMEndsControl ==
    /\ ctl.pc = "L236"
    /\ ctl.llm_should_be_active /\ ~ctl'.llm_should_be_active
    /\ ~human_control_active

\* C35: a land or disarm proposed by the LLM while it holds authority is
\* passed to execute_command before control is handed back to the human
C35_LLMLandExecuted ==
    [][LLMEndsControl
          => /\ ctl'.pc = "L272"
             /\ exec'.command = ctl'.last_llm_proposed_action
             /\ ActionOf(exec'.command) \in {"land", "disarm"}]_vars

(***************************************************************************)
(* Commands the executor does not know                                     *)
(***************************************************************************)

\* command_executor.py:278-391, the actions execute_command has a branch for
KnownActions ==
    {"takeoff", "land", "disarm", "goto_location", "follow_target", "do_nothing"}

\* C36: execute_command of a command whose action is not a known one
\* returns False and changes no field of the executor: a live follow task
\* and a live stream task keep running, _offboard_active keeps its value
C36_UnknownActionNoEffect ==
    [][exec' # exec /\ ActionOf(exec'.command) \notin KnownActions /\ exec'.command # None
          => /\ ExecutorFields' = ExecutorFields
             /\ (exec'.pc = "idle" => exec'.ret = "False")]_vars

(***************************************************************************)
(* Stale human commands                                                    *)
(***************************************************************************)

\* The calls that end the human's intent
EndsIntent == {"release", "set_active_true", "set_active_false"}

\* C37: a command recorded by set_human_command is not returned by an
\* arbitrate_command call made after a later release_human_control or
\* set_human_control_active call, unless it was recorded again
C37_NoStaleHumanCommand ==
    arb_last.op = "arbitrate" /\ arb_last.ret \in HumanCommands
       => /\ arb_last.was_since["record"] # NoEvent
          /\ arb_last.was_since["record"] \cap EndsIntent = {}

\* arbitrate_command called with a recorded command still pending after
\* set_human_control_active(False): the proposal is returned, not the command
C37_Witness ==
    /\ arb_last.op = "arbitrate"
    /\ arb_last.was_pending \in HumanCommands
    /\ arb_last.was_since["record"] # NoEvent
    /\ "set_active_false" \in arb_last.was_since["record"]
    /\ arb_last.ret \in ProposedCommands

(***************************************************************************)
(* Shutdown                                                                *)
(***************************************************************************)

\* The stop of the stream task that the cleanup of main() awaits at line 306
\* returns
CleanupStopReturns ==
    ctl.pc = "L306" /\ exec.pc = "L91" /\ exec'.pc = "idle"

\* C38: when the cleanup of main() has stopped the stream task, no stream
\* task is live again and no follow task is left running that can restart
\* the stream
C38_NoStreamAfterCleanup ==
    [][CleanupStopReturns => LiveStreams(W)' = {} /\ LiveFollows(W)' = {}]_vars

====
